---- MODULE Spec2Model ----
(***************************************************************************)
(* Open Eyes Vote: the coffee/tea voting tool.                             *)
(*                                                                         *)
(* Two variants of the same domain model are covered:                      *)
(*   "server": the Express + Mongoose backend of src/app.js (lines         *)
(*             542-825) with the browser client of src/app.js (1-540);     *)
(*   "local" : the localStorage-backed client of src/app-firebase.js.      *)
(* The record store (MongoDB collections, or the localStorage keys) is     *)
(* the triple users / sessions / votes; variant says which code owns it.   *)
(***************************************************************************)
EXTENDS Integers, Sequences, FiniteSets, Bags, TLC

VARIABLES
    variant,     \* "server" (app.js) or "local" (app-firebase.js)
    users,       \* User collection / brewvote_users, in insertion order
    sessions,    \* Session collection / brewvote_sessions, in stored order
    votes,       \* Vote collection / brewvote_votes, in insertion order
    nSessions,   \* how many session ids randomUUID() has handed out
    nVotes,      \* how many vote ids randomUUID() has handed out
    now,         \* the wall clock read by new Date()
    appUser,     \* app.user of the browser client (NoUser is null)
    loginError,  \* TRUE when the #login-error element is visible
    storedUser,  \* localStorage item brewvote_current_user (NoUser: absent)
    intervals,   \* the intervals that setInterval registered for the
                 \* dashboard's poller and that were not cleared: the one
                 \* whose handle app.pollInterval holds, and earlier ones
    res,         \* outcome of the last operation: HTTP response or UI effect
    inflight,    \* the bag of async handlers suspended at an await: route
                 \* handlers of the server, calls of the page's async functions
    lastSessionId,  \* app.lastSessionId (NoSession is null)
    empView,        \* what the employee dashboard displays: which of
                    \* #emp-state-waiting, -voting and -voted, and the text of
                    \* #voted-selection-text
    adminControls   \* which of #admin-controls-idle and #admin-controls-active
                    \* is not hidden; showView() leaves the two elements alone,
                    \* so the value is kept while the section is hidden

vars == <<variant, users, sessions, votes, nSessions, nVotes, now,
          appUser, loginError, storedUser, intervals, res, inflight,
          lastSessionId, empView, adminControls>>

store  == <<users, sessions, votes, nSessions, nVotes>>
client == <<appUser, loginError, storedUser, intervals>>
page   == <<lastSessionId, empView, adminControls>>

---------------------------------------------------------------------------
(* Bounds of the model                                                     *)

MaxUsers    == 2    \* employees that register
MaxSessions == 2    \* sessions ever started
MaxVotes    == 2    \* votes ever stored
MaxRequests == 2    \* server requests in flight at a time
MaxTime     == 3    \* steps of the clock
MaxTicks    == 2    \* calls of the poller in progress at a time

---------------------------------------------------------------------------
(* Values                                                                  *)

\* app.user = null
NoUser == [id |-> "", name |-> "", employeeId |-> "", role |-> ""]

\* app.lastSessionId = null
NoSession == ""

\* app.pollInterval = null and no interval registered
NoIntervals == [held |-> FALSE, leaked |-> FALSE]

\* app.pollInterval = setInterval(...): the handle held before is
\* overwritten, and an interval it names that was not cleared keeps firing
SetInterval(iv) == [held |-> TRUE, leaked |-> iv.leaked \/ iv.held]

\* clearInterval(app.pollInterval)
ClearInterval(iv) == [iv EXCEPT !.held = FALSE]

\* Nothing of the employee dashboard is displayed: showView() hid its
\* section, or no handler has shown it yet.  Every path that shows the
\* section sets the three states, and the text is written whenever the
\* voted state is shown.
EmpViewBlank == [waiting |-> FALSE, voting |-> FALSE, voted |-> FALSE, text |-> ""]

\* The admin controls as the markup of the page has them: no handler has
\* written them yet
NoControls == ""

\* endTime of a session that was never ended (the field is absent)
NoTime == -1

ADMIN_USER ==
    [id |-> "admin-1", name |-> "Event Manager", employeeId |-> "ADM001", role |-> "ADMIN"]

\* crypto.randomUUID(): the n-th identifier handed out for a collection
UserUuid(n)    == <<"u1", "u2", "u3", "u4", "u5">>[n]
SessionUuid(n) == <<"s1", "s2", "s3", "s4", "s5">>[n]
VoteUuid(n)    == <<"v1", "v2", "v3", "v4", "v5">>[n]

\* Inputs typed into the login form / sent in request bodies.  "" is an
\* empty field (undefined after `name || undefined`, falsy on the server).
\* RoleInputs is the role of a login request: app.loginMode, which the
\* setLoginMode buttons of the login view set before the form is submitted.
EmployeeIdInputs == {"EMP1", "EMP2", "ADM001", "oe10", ""}
NameInputs       == {"Ann", "Bob", ""}
RoleInputs       == {"EMPLOYEE", "ADMIN"}

\* An identifier that names no record
GhostId == "ghost"

---------------------------------------------------------------------------
(* Collection helpers                                                      *)

\* Array.prototype.findIndex / Model.findOne: first position satisfying
\* Test, 0 when there is none
FindIndex(seq, Test(_)) ==
    LET I == {i \in DOMAIN seq : Test(seq[i])}
    IN  IF I = {} THEN 0 ELSE CHOOSE i \in I : \A j \in I : i <= j

\* Array.prototype.filter / Model.find
Filter(seq, Test(_)) == SelectSeq(seq, Test)

\* The result of a lookup as a JSON body: <<>> is null, <<r>> is a record
Found(seq, i) == IF i = 0 THEN <<>> ELSE <<seq[i]>>

Response(op, status, error, body) ==
    [op |-> op, status |-> status, error |-> error, body |-> body]

---------------------------------------------------------------------------
(* Views: showView() shows exactly one section; navigate() picks it        *)

View ==
    IF appUser = NoUser THEN "view-login"
    ELSE IF appUser.role = "ADMIN" THEN "view-admin"
    ELSE "view-employee"

---------------------------------------------------------------------------
(* Async handlers.  A route handler of the server and an async function    *)
(* of the page run up to an `await` and are resumed when the awaited        *)
(* database operation or fetch is answered; other handlers run in between.  *)
(* One step of the model is one database operation together with the code   *)
(* that follows it up to the next await.  The answer of a route's last       *)
(* operation is delivered with it: the page function that awaits the fetch   *)
(* goes on in the same step, up to its own next fetch.                       *)

\* Who awaits the answer of a request: "api" is an HTTP client other than
\* the page, "closed" a page that was reloaded since; the others name the
\* function of the page
PageFunctions == {"init", "handleLogin", "startSession", "endSession", "castVote"}

\* A route handler suspended at the database operation `pc`, with what it
\* holds in its local variables: the request and the document it built
Handler(op, pc, from, req, doc) ==
    [op |-> op, pc |-> pc, from |-> from, req |-> req, doc |-> doc]

\* A call of a page function suspended at the fetch `pc`, which the server
\* has not answered yet
Call(op, pc, sessionId) == [op |-> op, pc |-> pc, sessionId |-> sessionId]

\* The call c once the server has answered its fetch with r: the response
\* is on its way, the call goes on when `await fetch` and `await
\* response.json()` of api.request return
Answered(c, r) == [op |-> c.op, pc |-> "answered", call |-> c, res |-> r]

\* fetch rejects: the server cannot be reached
FailedToFetch(op) == Response(op, 0, "Failed to fetch", <<>>)

\* A call of castVote(type) suspended at the fetch `pc`
CastCall(pc, type) == [op |-> "castVote", pc |-> pc, type |-> type]

Routes == {"init", "login", "getActive", "start", "end", "vote"}

\* The handlers and calls in flight that satisfy a test, as a bag
Pending == BagToSet(inflight)
Handlers == {h \in Pending : h.op \in Routes}
HowMany(S) == BagCardinality([h \in S |-> inflight[h]])

\* How many requests of route `op` are in flight and not answered yet
InFlight(op) == HowMany({h \in Handlers : h.op = op /\ h.pc # "answered"})

\* The model keeps at most MaxRequests requests in flight, counting those
\* whose response is on its way to the page
Room == variant = "server" /\ HowMany(Handlers) < MaxRequests

\* The bag without one copy of h, and with d in its place
Without(h) == inflight (-) SetToBag({h})
Proceed(c, d) == Without(c) (+) SetToBag({d})

\* What a step of a route comes to: the response, or the next await
Done(r)  == [done |-> TRUE, res |-> r, next |-> <<>>]
Await(h) == [done |-> FALSE, res |-> <<>>, next |-> h]

---------------------------------------------------------------------------
(* Users: what login and registration share                               *)

\* The unique indexes of userSchema: id and employeeId
DuplicateKey(us, u) ==
    \E i \in DOMAIN us : us[i].id = u.id \/ us[i].employeeId = u.employeeId

\* The employee document that registration builds
NewEmployee(us, employeeId, name) ==
    [id         |-> UserUuid(Len(Filter(us, LAMBDA u : u.role = "EMPLOYEE")) + 1),
     name       |-> name,
     employeeId |-> employeeId,
     role       |-> "EMPLOYEE"]

\* Admin branch: the record found by {employeeId, role: 'ADMIN'}
FindAdmin(us, employeeId) ==
    FindIndex(us, LAMBDA u : u.employeeId = employeeId /\ u.role = "ADMIN")

\* Mutation of FindEmployee: the role of the admin branch is queried
FindEmployeeAsAdmin(us, employeeId) ==
    FindIndex(us, LAMBDA u : u.employeeId = employeeId /\ u.role = "ADMIN")

\* Employee branch: the record found by {employeeId, role: 'EMPLOYEE'}
FindEmployee(us, employeeId) ==
    FindIndex(us, LAMBDA u : u.employeeId = employeeId /\ u.role = "EMPLOYEE")

\* Mutation of ShouldRegister: the name is not required
ShouldRegisterUnnamed(found, name) == found = 0

\* if (!user && name): register on first login.  found is the position of
\* the record, 0 when there is none
ShouldRegister(found, name) == found = 0 /\ name # ""

\* The message of the 401 of the employee branch
UserNotFound == "User not found. Please provide name for first login."

\* The model registers at most MaxUsers employees
WithinUsers(us) == Len(Filter(us, LAMBDA u : u.role = "EMPLOYEE")) <= MaxUsers

---------------------------------------------------------------------------
(* Server-backed client (src/app.js): authentication                       *)

AppLogout ==
    /\ variant = "server"
    /\ View # "view-login"
    /\ appUser' = NoUser
    /\ storedUser' = NoUser
    /\ intervals' = ClearInterval(intervals)
    /\ empView' = EmpViewBlank
    /\ res' = Response("logout", 0, "", <<>>)
    /\ UNCHANGED <<variant, inflight, store, now, loginError, lastSessionId,
                   adminControls>>

---------------------------------------------------------------------------
(* Local-storage client (src/app-firebase.js): authentication              *)

\* users.find(u => u.employeeId === id): no filter on the role
LocalFindUser(us, id) == FindIndex(us, LAMBDA u : u.employeeId = id)

\* The code the admin branch of handleLogin compares the id with
LocalAdminCode == "oe10"

\* [users, appUser, loginError] after handleLogin(id, name) in mode `mode`
LocalLogin(us, user, err, id, name, mode) ==
    IF mode = "ADMIN"
    THEN IF id = LocalAdminCode
         THEN [users |-> us, appUser |-> ADMIN_USER, loginError |-> FALSE]
         ELSE [users |-> us, appUser |-> user, loginError |-> TRUE]
    ELSE LET f == LocalFindUser(us, id)
             newUser == NewEmployee(us, id, name)
         IN  IF ShouldRegister(f, name)
             THEN [users |-> Append(us, newUser), appUser |-> newUser,
                   loginError |-> FALSE]
             ELSE IF f = 0
             THEN [users |-> us, appUser |-> user, loginError |-> TRUE]
             ELSE [users |-> us, appUser |-> us[f], loginError |-> FALSE]

LocalLogout ==
    /\ variant = "local"
    /\ View # "view-login"
    /\ appUser' = NoUser
    /\ storedUser' = NoUser
    /\ intervals' = ClearInterval(intervals)
    /\ empView' = EmpViewBlank
    /\ res' = Response("logout", 0, "", <<>>)
    /\ UNCHANGED <<variant, inflight, store, now, loginError, lastSessionId,
                   adminControls>>

---------------------------------------------------------------------------
(* Sessions and votes: shared helpers                                      *)

\* Session.findOne({isActive: true}) / sessions.find(s => s.isActive)
ActiveSession(ss) == FindIndex(ss, LAMBDA s : s.isActive)

\* Session.findOne({id}) / sessions.findIndex(s => s.id === id)
FindSession(ss, id) == FindIndex(ss, LAMBDA s : s.id = id)

\* Mutation of IsAdminId: the role test is left out
IsKnownUserId(us, userId) == FindIndex(us, LAMBDA u : u.id = userId) # 0

\* User.findOne({id: userId}) followed by the role test
IsAdminId(us, userId) ==
    LET i == FindIndex(us, LAMBDA u : u.id = userId)
    IN  i # 0 /\ us[i].role = "ADMIN"

\* Mutation of DeactivateAll: every earlier session is switched back on
ReactivateAll(ss) == [i \in DOMAIN ss |-> [ss[i] EXCEPT !.isActive = TRUE]]

\* Mutation of DeactivateAll: the earlier sessions are left as they are
DeactivateNone(ss) == ss

\* Session.updateMany({isActive: true}, {isActive: false}) /
\* sessions.forEach(s => { s.isActive = false; })
DeactivateAll(ss) == [i \in DOMAIN ss |-> [ss[i] EXCEPT !.isActive = FALSE]]

\* The session document that startSession builds
NewSession(n, t) ==
    [id |-> SessionUuid(n), startTime |-> t, endTime |-> NoTime,
     isActive |-> TRUE, totalVotes |-> 0]

\* The vote document that castVote builds
NewVote(n, t, sessionId, userId, userName, type) ==
    [id |-> VoteUuid(n), sessionId |-> sessionId, userId |-> userId,
     userName |-> userName, type |-> type, timestamp |-> t]

\* Mutation of IncTotalVotes: the counter is raised by two
IncTwice(ss, i) ==
    IF i = 0 THEN ss ELSE [ss EXCEPT ![i].totalVotes = @ + 2]

\* Mutation of IncTotalVotes: the counter is not updated
IncNothing(ss, i) == ss

\* { $inc: { totalVotes: 1 } } / sessions[idx].totalVotes++
IncTotalVotes(ss, i) ==
    IF i = 0 THEN ss ELSE [ss EXCEPT ![i].totalVotes = @ + 1]

\* {isActive: false, endTime: new Date()} on the session at position i
MarkEnded(ss, i, t) ==
    IF i = 0 THEN ss ELSE [ss EXCEPT ![i].isActive = FALSE, ![i].endTime = t]

\* A session lasts 10 minutes
SESSION_DURATION_MS == 10 * 60 * 1000

\* Mutation of Expired: the timer never runs out
NeverExpired(ss, sessionId, t) == FALSE

\* const diff = (start + SESSION_DURATION_MS) - now, for the session that
\* getActive returned
Expired(ss, sessionId, t) ==
    LET i == FindSession(ss, sessionId)
    IN  i # 0 /\ (ss[i].startTime + SESSION_DURATION_MS) - t <= 0

\* Identifiers a request can carry: those of stored records, one that names
\* nothing, and "" for a parameter that is absent or empty
UserIdInputs    == {users[i].id : i \in DOMAIN users} \cup {GhostId, ""}
SessionIdInputs == {sessions[i].id : i \in DOMAIN sessions} \cup {GhostId, ""}

\* The name of the user with that id, "" if there is none: the userName
\* that the page's castVote sends with app.user.id
NameOf(us, userId) ==
    LET i == FindIndex(us, LAMBDA u : u.id = userId)
    IN  IF i = 0 THEN "" ELSE us[i].name

\* A userName that is the name of no user
OtherName == "Zed"

\* Bodies of POST /api/votes.  The server stores userId and userName
\* unchecked, so the ids of the registered employees stand for every
\* non-empty string.  Each stored session is voted in by each employee
\* under the employee's name with each type of the enum, and by the first
\* employee under another name and with a type outside the enum; one request names no stored session, and each required field
\* is left out in one request
VoteRequests ==
    {[sessionId |-> sid, userId |-> uid, userName |-> NameOf(users, uid), type |-> type] :
        sid \in SessionIdInputs \ {GhostId, ""},
        uid \in {users[i].id : i \in {j \in DOMAIN users : users[j].role = "EMPLOYEE"}},
        type \in {"COFFEE", "TEA"}}
    \cup {[sessionId |-> sid, userId |-> UserUuid(1), userName |-> name, type |-> type] :
             sid \in SessionIdInputs \ {GhostId, ""},
             name \in {OtherName}, type \in {"TEA"}}
    \cup {[sessionId |-> sid, userId |-> UserUuid(1), userName |-> "Ann", type |-> "WATER"] :
             sid \in SessionIdInputs \ {GhostId, ""}}
    \cup {[sessionId |-> GhostId, userId |-> UserUuid(1), userName |-> "", type |-> "TEA"],
          [sessionId |-> "", userId |-> UserUuid(1), userName |-> "", type |-> "TEA"],
          [sessionId |-> GhostId, userId |-> "", userName |-> "", type |-> "TEA"],
          [sessionId |-> GhostId, userId |-> UserUuid(1), userName |-> "", type |-> ""]}

---------------------------------------------------------------------------
(* Server-backed client (src/app.js): how a page function goes on when the *)
(* fetch it awaits is answered.  rest is the bag of handlers and calls in  *)
(* flight without the handler that answers, r is the response.             *)

\* initEmployeeDashboard for a user who is no admin
Waiting == [waiting |-> TRUE, voting |-> FALSE, voted |-> FALSE, text |-> ""]

\* How many calls of page functions a bag holds that are suspended at a
\* fetch of updateAdminUI, checkEmployeeStatus or castVote, or anywhere in
\* endSession
CallsIn(b) ==
    BagCardinality([c \in {x \in BagToSet(b) : x.op \notin Routes \/ x.from = "endSession"}
                       |-> b[c]])

\* b and one more call of a page function; the model keeps at most MaxTicks
\* of them in flight
WithCall(b, c) == b (+) SetToBag({c})

\* navigate() with app.user = user: showView, then initAdminDashboard,
\* whose updateAdminUI() runs up to its first fetch and which sets the
\* interval, or initEmployeeDashboard, whose test of the role fails for an
\* employee.  iv is what is registered when navigate() is called.
\* (renderHistory and renderChart write elements that are not modelled.)
Navigate(rest, user, iv) ==
    /\ IF user.role = "ADMIN"
       THEN /\ CallsIn(rest) < MaxTicks
            /\ inflight' = WithCall(rest, Call("updateAdminUI", "getActive", ""))
            /\ empView' = EmpViewBlank
            /\ intervals' = SetInterval(iv)
       ELSE /\ inflight' = rest
            /\ empView' = Waiting
            /\ intervals' = iv
    /\ UNCHANGED <<lastSessionId, adminControls>>

\* app.init after `await api.request('/init', ...)`, whose failure is only
\* logged: the stored user is restored
AfterInit(rest, r) ==
    /\ res' = r
    /\ UNCHANGED <<loginError, storedUser>>
    /\ IF storedUser # NoUser
       THEN appUser' = storedUser /\ Navigate(rest, storedUser, intervals)
       ELSE inflight' = rest /\ UNCHANGED <<appUser, intervals, page>>

\* handleLogin after `await api.auth.login(...)`
AfterHandleLogin(rest, r) ==
    /\ res' = [r EXCEPT !.op = "handleLogin"]
    /\ IF r.status = 200
       THEN /\ appUser' = r.body[1]
            /\ storedUser' = r.body[1]
            /\ UNCHANGED loginError
            /\ Navigate(rest, r.body[1], intervals)
       ELSE /\ loginError' = TRUE
            /\ inflight' = rest
            /\ UNCHANGED <<appUser, storedUser, intervals, page>>

\* startSession after `await api.sessions.start()`: the toast, then
\* updateAdminUI() up to its first fetch
AfterStartSession(rest, r) ==
    /\ IF r.status = 200
       THEN /\ CallsIn(rest) < MaxTicks
            /\ inflight' = WithCall(rest, Call("updateAdminUI", "getActive", ""))
            /\ res' = Response("startSession", 200, "", <<"Session Started!">>)
       ELSE /\ inflight' = rest
            /\ res' = Response("startSession", r.status, r.error, <<r.error>>)
    /\ UNCHANGED <<client, page>>

\* castVote after `await api.votes.cast(...)`: the toast, then
\* checkEmployeeStatus() up to its first fetch; with app.user = null the
\* argument app.user.id of that fetch throws, which is caught and logged
AfterCastVote(rest, r) ==
    /\ IF r.status = 200
       THEN /\ appUser # NoUser => CallsIn(rest) < MaxTicks
            /\ inflight' = IF appUser = NoUser THEN rest
                           ELSE WithCall(rest, Call("checkEmployeeStatus", "getActive", ""))
            /\ res' = Response("castVote", 200, "", <<"Vote Cast Successfully!">>)
       ELSE /\ inflight' = rest
            /\ res' = Response("castVote", r.status, r.error, <<r.error>>)
    /\ UNCHANGED <<client, page>>

\* endSession after `await api.sessions.end(session.id)`: the toast, then
\* updateAdminUI() up to its first fetch
AfterEndSession(rest, r) ==
    /\ IF r.status = 200
       THEN /\ inflight' = WithCall(rest, Call("updateAdminUI", "getActive", ""))
            /\ res' = Response("endSession", 200, "", <<"Session Ended">>)
       ELSE /\ inflight' = rest
            /\ res' = Response("endSession", r.status, r.error, <<r.error>>)
    /\ UNCHANGED <<client, page>>

\* api.request returns or throws in the page function that awaits it
Resume(rest, from, r) ==
    CASE from = "init"         -> AfterInit(rest, r)
      [] from = "handleLogin"  -> AfterHandleLogin(rest, r)
      [] from = "startSession" -> AfterStartSession(rest, r)
      [] from = "endSession"   -> AfterEndSession(rest, r)
      [] from = "castVote"     -> AfterCastVote(rest, r)

\* The response r of a route is sent to whoever made the request: another
\* client has it at once; on its way to the page it is a handler at
\* "answered" that holds r; a page that was reloaded gets nothing
Finish(rest, from, r) ==
    IF from \in PageFunctions
    THEN /\ inflight' = rest (+) SetToBag({Handler(r.op, "answered", from, <<>>, r)})
         /\ UNCHANGED <<res, client, page>>
    ELSE /\ res' = r
         /\ inflight' = rest
         /\ UNCHANGED <<client, page>>

\* A step of a route ends with its response or at its next await
Advance(rest, from, out) ==
    IF out.done
    THEN Finish(rest, from, out.res)
    ELSE /\ inflight' = rest (+) SetToBag({out.next})
         /\ UNCHANGED <<res, client, page>>

\* The response of a route reaches the page: the function that awaits it
\* goes on, up to its next fetch
AppResume(h) ==
    /\ BagIn(h, inflight)
    /\ h.op \in Routes /\ h.pc = "answered"
    /\ Resume(Without(h), h.from, h.doc)
    /\ UNCHANGED <<variant, store, now>>

---------------------------------------------------------------------------
(* Server: the route handlers.  XBegin is a request of another client      *)
(* from its arrival to the answer of the route's first database operation; *)
(* XFind is that first operation for a request the page sent earlier.      *)

\* POST /api/init: the answer of User.findOne({employeeId: 'ADM001'})
InitFindOne(us, from) ==
    IF FindIndex(us, LAMBDA u : u.employeeId = "ADM001") # 0
    THEN Done(Response("init", 200, "", <<>>))
    ELSE Await(Handler("init", "create", from, <<>>, ADMIN_USER))

InitBegin ==
    /\ Room
    /\ Advance(inflight, "api", InitFindOne(users, "api"))
    /\ UNCHANGED <<variant, store, now>>

InitFind(h) ==
    /\ BagIn(h, inflight)
    /\ h.op = "init" /\ h.pc = "findOne"
    /\ Advance(Without(h), h.from, InitFindOne(users, h.from))
    /\ UNCHANGED <<variant, store, now>>

\* POST /api/init: User.create of the admin, then the response
InitCreate(h) ==
    /\ BagIn(h, inflight)
    /\ h.op = "init" /\ h.pc = "create"
    /\ IF DuplicateKey(users, h.doc)
       THEN /\ UNCHANGED users
            /\ Finish(Without(h), h.from,
                      Response("init", 500, "E11000 duplicate key", <<>>))
       ELSE /\ users' = Append(users, h.doc)
            /\ Finish(Without(h), h.from, Response("init", 200, "", <<>>))
    /\ UNCHANGED <<variant, sessions, votes, nSessions, nVotes, now>>

\* Bodies of POST /api/auth/login
LoginRequests ==
    [employeeId : EmployeeIdInputs, name : NameInputs, role : RoleInputs]

\* POST /api/auth/login: the answer of User.findOne({employeeId, role})
LoginFindOne(us, req, from) ==
    IF req.role = "ADMIN"
    THEN LET a == FindAdmin(us, req.employeeId)
         IN  IF a = 0
             THEN Done(Response("login", 401, "Invalid admin credentials", <<>>))
             ELSE Done(Response("login", 200, "", <<us[a]>>))
    ELSE LET e == FindEmployee(us, req.employeeId)
         IN  IF ShouldRegister(e, req.name)
             THEN Await(Handler("login", "create", from, req, <<>>))
             ELSE IF e = 0
             THEN Done(Response("login", 401, UserNotFound, <<>>))
             ELSE Done(Response("login", 200, "", <<us[e]>>))

\* The model registers at most MaxUsers employees: a login goes on to
\* User.create only while there is room for its document
RoomToRegister(out) ==
    ~out.done =>
        Len(Filter(users, LAMBDA u : u.role = "EMPLOYEE"))
            + HowMany({h \in Handlers : h.op = "login" /\ h.pc = "create"}) < MaxUsers

LoginBegin(req) ==
    /\ Room
    /\ IF req.employeeId = ""
       THEN Finish(inflight, "api", Response("login", 400, "Employee ID required", <<>>))
       ELSE /\ RoomToRegister(LoginFindOne(users, req, "api"))
            /\ Advance(inflight, "api", LoginFindOne(users, req, "api"))
    /\ UNCHANGED <<variant, store, now>>

LoginFind(h) ==
    /\ BagIn(h, inflight)
    /\ h.op = "login" /\ h.pc = "findOne"
    /\ RoomToRegister(LoginFindOne(users, h.req, h.from))
    /\ Advance(Without(h), h.from, LoginFindOne(users, h.req, h.from))
    /\ UNCHANGED <<variant, store, now>>

\* POST /api/auth/login: User.create of the new employee, then the
\* response.  The id is random: the model numbers the employees in the
\* order of their creation
LoginCreate(h) ==
    /\ BagIn(h, inflight)
    /\ h.op = "login" /\ h.pc = "create"
    /\ LET newUser == NewEmployee(users, h.req.employeeId, h.req.name)
       IN  IF DuplicateKey(users, newUser)
           THEN /\ UNCHANGED users
                /\ Finish(Without(h), h.from,
                          Response("login", 500, "E11000 duplicate key", <<>>))
           ELSE /\ users' = Append(users, newUser)
                /\ Finish(Without(h), h.from, Response("login", 200, "", <<newUser>>))
    /\ UNCHANGED <<variant, sessions, votes, nSessions, nVotes, now>>

\* GET /api/sessions/active?userId=...: with a userId the first operation
\* is User.findOne({id: userId}), without one Session.findOne
GetActiveBegin(userId) ==
    /\ Room
    /\ Advance(inflight, "api",
               IF userId = ""
               THEN Done(Response("getActive", 200, "",
                                  Found(sessions, ActiveSession(sessions))))
               ELSE IF ~IsAdminId(users, userId)
               THEN Done(Response("getActive", 200, "", <<>>))
               ELSE Await(Handler("getActive", "findSession", "api",
                                  [userId |-> userId], <<>>)))
    /\ UNCHANGED <<variant, store, now>>

\* GET /api/sessions/active: Session.findOne({isActive: true}) for an admin
GetActiveSession(h) ==
    /\ BagIn(h, inflight)
    /\ h.op = "getActive" /\ h.pc = "findSession"
    /\ Finish(Without(h), h.from,
              Response("getActive", 200, "", Found(sessions, ActiveSession(sessions))))
    /\ UNCHANGED <<variant, store, now>>

\* User.findOne({id: userId}): the position of the document it answers
\* with, 0 for null.  Without a userId the filter is {id: undefined}, which
\* is sent as {id: null}; id is required by userSchema, so no stored user
\* matches it
UserById(us, userId) ==
    IF userId = "" THEN 0 ELSE FindIndex(us, LAMBDA u : u.id = userId)

\* Mutation of StartFindOne: the role of the requester is not tested
StartFindOneAnyRole(us, i, userId, from) ==
    IF i = 0
    THEN Done(Response("start", 403, "Only admins can start sessions", <<>>))
    ELSE Await(Handler("start", "updateMany", from, [userId |-> userId], <<>>))

\* POST /api/sessions/start: after User.findOne answered with us[i]
StartFindOne(us, i, userId, from) ==
    IF i = 0 \/ us[i].role # "ADMIN"
    THEN Done(Response("start", 403, "Only admins can start sessions", <<>>))
    ELSE Await(Handler("start", "updateMany", from, [userId |-> userId], <<>>))

\* The model starts at most MaxSessions sessions
RoomToStart(out) == ~out.done => nSessions + InFlight("start") < MaxSessions

StartBegin(userId) ==
    /\ Room
    /\ LET out == StartFindOne(users, UserById(users, userId), userId, "api")
       IN  RoomToStart(out) /\ Advance(inflight, "api", out)
    /\ UNCHANGED <<variant, store, now>>

StartFind(h) ==
    /\ BagIn(h, inflight)
    /\ h.op = "start" /\ h.pc = "findOne"
    /\ Advance(Without(h), h.from,
               StartFindOne(users, UserById(users, h.req.userId), h.req.userId, h.from))
    /\ UNCHANGED <<variant, store, now>>

\* POST /api/sessions/start: Session.updateMany, then newSession is built
\* with startTime: new Date()
StartUpdateMany(h) ==
    /\ BagIn(h, inflight)
    /\ h.op = "start" /\ h.pc = "updateMany"
    /\ sessions' = DeactivateAll(sessions)
    /\ inflight' = Proceed(h, [h EXCEPT !.pc = "create", !.doc = [startTime |-> now]])
    /\ UNCHANGED <<variant, page, users, votes, nSessions, nVotes, now, client, res>>

\* POST /api/sessions/start: Session.create, then the response.  The id is
\* random: the model numbers the sessions in the order of their creation
StartCreate(h) ==
    /\ BagIn(h, inflight)
    /\ h.op = "start" /\ h.pc = "create"
    /\ LET session == NewSession(nSessions + 1, h.doc.startTime)
       IN  /\ sessions' = Append(sessions, session)
           /\ Finish(Without(h), h.from, Response("start", 200, "", <<session>>))
    /\ nSessions' = nSessions + 1
    /\ UNCHANGED <<variant, users, votes, nVotes, now>>

\* POST /api/sessions/:id/end: findOneAndUpdate with the update that was
\* built with endTime t, and the response
EndSession(ss, t, id) ==
    LET i == FindSession(ss, id)
        after == MarkEnded(ss, i, t)
    IN  [sessions |-> after, res |-> Response("end", 200, "", Found(after, i))]

\* POST /api/sessions/:id/end arrives: the arguments of findOneAndUpdate
\* are evaluated, endTime: new Date() among them, and the operation is
\* awaited
PostSessionsEndReq(id) ==
    /\ Room
    /\ inflight' = inflight (+) SetToBag({
           Handler("end", "update", "api", [id |-> id], [endTime |-> now])})
    /\ UNCHANGED <<variant, store, now, client, page, res>>

PostSessionsEnd == \E id \in SessionIdInputs \ {""} : PostSessionsEndReq(id)

\* The same for a request that the page sent
EndArrive(h) ==
    /\ BagIn(h, inflight)
    /\ h.op = "end" /\ h.pc = "arrive"
    /\ inflight' = Proceed(h, [h EXCEPT !.pc = "update", !.doc = [endTime |-> now]])
    /\ UNCHANGED <<variant, store, now, client, page, res>>

\* POST /api/sessions/:id/end: findOneAndUpdate is executed, then the
\* response
EndUpdate(h) ==
    /\ BagIn(h, inflight)
    /\ h.op = "end" /\ h.pc = "update"
    /\ LET r == EndSession(sessions, h.doc.endTime, h.req.id)
       IN  /\ sessions' = r.sessions
           /\ Finish(Without(h), h.from, r.res)
    /\ UNCHANGED <<variant, users, votes, nSessions, nVotes, now>>

\* Mutation of ExistingVote: the vote's own id is compared with userId
ExistingVoteById(vs, sessionId, userId) ==
    FindIndex(vs, LAMBDA v : v.sessionId = sessionId /\ v.id = userId)

\* Vote.findOne({sessionId, userId})
ExistingVote(vs, sessionId, userId) ==
    FindIndex(vs, LAMBDA v : v.sessionId = sessionId /\ v.userId = userId)

\* voteSchema: type has enum ['COFFEE', 'TEA']
ValidVote(v) == v.type \in {"COFFEE", "TEA"}

\* Mutation of VoteDuplicateKey: a unique index on (sessionId, userId) too
VoteDuplicatePair(vs, v) ==
    \E i \in DOMAIN vs :
        \/ vs[i].id = v.id
        \/ vs[i].sessionId = v.sessionId /\ vs[i].userId = v.userId

\* The unique index of voteSchema: id only
VoteDuplicateKey(vs, v) == \E i \in DOMAIN vs : vs[i].id = v.id

\* POST /api/votes: the test of the body, then the answer of
\* Vote.findOne({sessionId, userId}), after which newVote is built with
\* timestamp: new Date()
VoteFindOne(vs, req, from, t) ==
    IF req.sessionId = "" \/ req.userId = "" \/ req.type = ""
    THEN Done(Response("vote", 400, "Missing required fields", <<>>))
    ELSE IF ExistingVote(vs, req.sessionId, req.userId) # 0
    THEN Done(Response("vote", 400, "User already voted in this session", <<>>))
    ELSE Await(Handler("vote", "create", from, req, [timestamp |-> t]))

\* The model stores at most MaxVotes votes
RoomToVote(out) == ~out.done => nVotes + InFlight("vote") < MaxVotes

VoteBegin(req) ==
    /\ Room
    /\ RoomToVote(VoteFindOne(votes, req, "api", now))
    /\ Advance(inflight, "api", VoteFindOne(votes, req, "api", now))
    /\ UNCHANGED <<variant, store, now>>

VoteFind(h) ==
    /\ BagIn(h, inflight)
    /\ h.op = "vote" /\ h.pc = "findOne"
    /\ Advance(Without(h), h.from, VoteFindOne(votes, h.req, h.from, now))
    /\ UNCHANGED <<variant, store, now>>

\* POST /api/votes: Vote.create, which validates the document first.  The
\* id is random: the model numbers the votes in the order of their creation
VoteCreate(h) ==
    /\ BagIn(h, inflight)
    /\ h.op = "vote" /\ h.pc = "create"
    /\ LET newVote == NewVote(nVotes + 1, h.doc.timestamp, h.req.sessionId,
                              h.req.userId, h.req.userName, h.req.type)
       IN  IF ~ValidVote(newVote)
           THEN /\ UNCHANGED <<votes, nVotes>>
                /\ Finish(Without(h), h.from,
                          Response("vote", 500, "Vote validation failed", <<>>))
           ELSE IF VoteDuplicateKey(votes, newVote)
           THEN /\ UNCHANGED <<votes, nVotes>>
                /\ Finish(Without(h), h.from,
                          Response("vote", 500, "E11000 duplicate key", <<>>))
           ELSE /\ votes' = Append(votes, newVote)
                /\ nVotes' = nVotes + 1
                /\ inflight' = Proceed(h, [h EXCEPT !.pc = "inc", !.doc = newVote])
                /\ UNCHANGED <<res, client, page>>
    /\ UNCHANGED <<variant, users, sessions, nSessions, now>>

\* POST /api/votes: Session.findOneAndUpdate with $inc, then the response
VoteInc(h) ==
    /\ BagIn(h, inflight)
    /\ h.op = "vote" /\ h.pc = "inc"
    /\ sessions' = IncTotalVotes(sessions, FindSession(sessions, h.req.sessionId))
    /\ Finish(Without(h), h.from, Response("vote", 200, "", <<h.doc>>))
    /\ UNCHANGED <<variant, users, votes, nSessions, nVotes, now>>

\* GET /api/stats
Stats(vs) ==
    [coffeeTotal |-> Len(Filter(vs, LAMBDA v : v.type = "COFFEE")),
     teaTotal    |-> Len(Filter(vs, LAMBDA v : v.type = "TEA")),
     totalVotes  |-> Len(vs)]

\* What becomes of a handler or call in flight when the server stops: the
\* fetch of a request that was not answered rejects; a response on its way
\* still arrives
Rejected(h) ==
    IF h.pc = "answered" THEN h
    ELSE IF h.op \in Routes
    THEN Handler(h.op, "answered", h.from, <<>>, FailedToFetch(h.op))
    ELSE Answered(h, FailedToFetch(h.pc))

\* The server process stops: the handlers in flight are lost with their
\* local variables, and the requests of the page that were not answered
\* fail
ServerCrash ==
    /\ variant = "server"
    /\ \E h \in Pending : h.pc # "answered"
    /\ inflight' = BagOfAll(Rejected,
                            [h \in {x \in Pending : x.op \in Routes => x.from \in PageFunctions}
                                |-> inflight[h]])
    /\ UNCHANGED <<variant, page, store, now, client, res>>

---------------------------------------------------------------------------
(* Local-storage client (src/app-firebase.js): session and vote handlers   *)

\* startSession: the new session is unshifted to the front
LocalStart(ss, n, t) == <<NewSession(n + 1, t)>> \o DeactivateAll(ss)

\* endSession: ends the first active session, if any
LocalEnd(ss, t) == MarkEnded(ss, ActiveSession(ss), t)

\* The argument of castVote: the two buttons of the voting section pass
\* COFFEE and TEA; the first employee also calls it with a type that no
\* button passes
LocalTypes(user) ==
    IF user.id = UserUuid(1) THEN {"COFFEE", "TEA", "WATER"} ELSE {"COFFEE", "TEA"}

\* castVote, once an active session was found: [votes, sessions]
LocalCast(ss, vs, n, t, user, type) ==
    LET session == ss[ActiveSession(ss)]
        newVote == NewVote(n + 1, t, session.id, user.id, user.name, type)
    IN  [votes |-> Append(vs, newVote),
         sessions |-> IncTotalVotes(ss, FindSession(ss, session.id))]

\* Mutation of LocalDelete: the votes of the session are kept
LocalDeleteNoCascade(ss, vs, sessionId) ==
    [sessions |-> Filter(ss, LAMBDA s : s.id # sessionId),
     votes    |-> vs]

\* deleteSession, once confirmed: [sessions, votes]
LocalDelete(ss, vs, sessionId) ==
    [sessions |-> Filter(ss, LAMBDA s : s.id # sessionId),
     votes    |-> Filter(vs, LAMBDA v : v.sessionId # sessionId)]

\* A checkEmployeeStatus that shows the voting section whenever a session is
\* active
CheckEmployeeStatusNoVoteLookup(last, view, ss, vs, user) ==
    LET a == ActiveSession(ss)
    IN  [lastSessionId |-> IF a = 0 THEN NoSession ELSE ss[a].id,
         empView |-> [waiting |-> a = 0, voting |-> a # 0, voted |-> FALSE, text |-> ""],
         toasts |-> <<>>]

\* checkEmployeeStatus for the user app.user, reading the sessions and the
\* votes: [lastSessionId, empView, toasts]
CheckEmployeeStatus(last, view, ss, vs, user) ==
    LET a == ActiveSession(ss)
        my == IF a = 0 THEN 0
              ELSE FindIndex(vs, LAMBDA v : v.sessionId = ss[a].id /\ v.userId = user.id)
    IN  [lastSessionId |-> IF a = 0 THEN NoSession ELSE ss[a].id,
         empView |->
            IF a = 0
            THEN [waiting |-> TRUE, voting |-> FALSE, voted |-> FALSE, text |-> ""]
            ELSE IF my # 0
            THEN [waiting |-> FALSE, voting |-> FALSE, voted |-> TRUE,
                  text |-> vs[my].type]
            ELSE [waiting |-> FALSE, voting |-> TRUE, voted |-> FALSE, text |-> ""],
         toasts |-> IF a # 0 /\ ss[a].id # last /\ last # NoSession
                    THEN <<"Voting has started!">>
                    ELSE <<>>]

\* updateAdminUI of the local-storage client: a session past its 10 minutes
\* is ended by app.endSession(), which calls updateAdminUI again:
\* [sessions, adminControls]
LocalUpdateAdminUI(ss, t) ==
    LET a == ActiveSession(ss)
    IN  IF a = 0
        THEN [sessions |-> ss, adminControls |-> "idle"]
        ELSE IF Expired(ss, ss[a].id, t)
        THEN [sessions |-> LocalEnd(ss, t), adminControls |-> "idle"]
        ELSE [sessions |-> ss, adminControls |-> "active"]

\* The requests of the page that was open, once it is reloaded: the calls
\* of its functions are gone, the handlers of its requests go on in the
\* server and answer nobody
Orphaned(h) == IF h.from \in PageFunctions THEN [h EXCEPT !.from = "closed"] ELSE h

\* The page is loaded: the script starts with app.user = null and
\* app.lastSessionId = null, the sections are as the markup has them, and
\* app.init sends POST /api/init
AppInit ==
    /\ Room
    /\ appUser' = NoUser
    /\ loginError' = FALSE
    /\ intervals' = NoIntervals
    /\ lastSessionId' = NoSession
    /\ empView' = EmpViewBlank
    /\ adminControls' = NoControls
    /\ inflight' = BagOfAll(Orphaned, [h \in {x \in Handlers : x.pc # "answered"}
                                         |-> inflight[h]])
                     (+) SetToBag({Handler("init", "findOne", "init", <<>>, <<>>)})
    /\ UNCHANGED <<variant, store, now, storedUser, res>>

\* handleLogin with `id` and `name` typed in and `mode` selected, up to
\* `await api.auth.login(...)`; the form stays in place until the answer
AppHandleLoginReq(id, name, mode) ==
    /\ Room
    /\ View = "view-login"
    /\ id # ""
    /\ inflight' = inflight (+) SetToBag({
           Handler("login", "findOne", "handleLogin",
                   [employeeId |-> id, name |-> name, role |-> mode], <<>>)})
    /\ UNCHANGED <<variant, store, now, client, page, res>>

AppHandleLogin ==
    \E id \in EmployeeIdInputs, name \in NameInputs, mode \in RoleInputs :
        AppHandleLoginReq(id, name, mode)

\* startSession up to `await api.sessions.start()`, which sends no userId
AppStartSession ==
    /\ Room
    /\ View = "view-admin"
    /\ nSessions + InFlight("start") < MaxSessions
    /\ inflight' = inflight (+) SetToBag({
           Handler("start", "findOne", "startSession", [userId |-> ""], <<>>)})
    /\ UNCHANGED <<variant, store, now, client, page, res>>

\* endSession, called by the End button, up to `await
\* api.sessions.getActive()`
AppEndSession ==
    /\ variant = "server"
    /\ View = "view-admin"
    /\ CallsIn(inflight) < MaxTicks
    /\ inflight' = WithCall(inflight, Call("endSession", "getActive", ""))
    /\ UNCHANGED <<variant, store, now, client, page, res>>

\* castVote(type) up to `await api.sessions.getActive()`
AppCastVoteReq(type) ==
    /\ variant = "server"
    /\ View = "view-employee"
    /\ CallsIn(inflight) < MaxTicks
    /\ inflight' = WithCall(inflight, CastCall("getActive", type))
    /\ UNCHANGED <<variant, store, now, client, page, res>>

\* The argument of castVote: the two buttons pass COFFEE and TEA; one call
\* passes a type that no button passes
AppCastVote == \E type \in {"COFFEE", "TEA", "WATER"} : AppCastVoteReq(type)

\* castVote: the answer of getActive (no userId was sent) arrives; without a
\* session the call returns, else api.votes.cast is sent for app.user, whose
\* absence makes the call end in the catch, as a failed fetch does
AppCastGetActive(c) ==
    /\ BagIn(c, inflight)
    /\ c.op = "castVote" /\ c.pc = "answered" /\ c.call.pc = "getActive"
    /\ IF c.res.status # 200
       THEN /\ inflight' = Without(c)
            /\ res' = Response("castVote", c.res.status, c.res.error, <<c.res.error>>)
       ELSE IF c.res.body = <<>>
       THEN /\ inflight' = Without(c)
            /\ res' = Response("castVote", 0, "", <<>>)
       ELSE IF appUser = NoUser
       THEN /\ inflight' = Without(c)
            /\ res' = Response("castVote", 0, "TypeError", <<"TypeError">>)
       ELSE /\ HowMany(Handlers) < MaxRequests
            /\ nVotes + InFlight("vote") < MaxVotes
            /\ inflight' = Proceed(c,
                   Handler("vote", "findOne", "castVote",
                           [sessionId |-> c.res.body[1].id, userId |-> appUser.id,
                            userName |-> appUser.name, type |-> c.call.type], <<>>))
            /\ UNCHANGED res
    /\ UNCHANGED <<variant, store, now, client, page>>

\* checkEmployeeStatus: getActive answered (api.sessions.getActive takes no
\* argument: no userId is sent).  The sections are written whether or not
\* the employee view is shown; what the view displays changes only if it is
ServerCheckActive(last, view, session, user, shown) ==
    [lastSessionId |-> IF session = <<>> THEN NoSession ELSE session[1].id,
     empView |-> IF session = <<>> /\ shown THEN Waiting ELSE view,
     toasts |-> IF user.role = "ADMIN" /\ session # <<>> /\ session[1].id # last
                   /\ last # NoSession
                THEN <<"Voting has started!">>
                ELSE <<>>]

AppCheckGetActive(c) ==
    /\ BagIn(c, inflight)
    /\ c.op = "checkEmployeeStatus" /\ c.pc = "answered" /\ c.call.pc = "getActive"
    /\ IF c.res.status # 200 \/ appUser = NoUser
       THEN \* the fetch failed, or app.user.role throws: caught and logged
            /\ inflight' = Without(c)
            /\ UNCHANGED <<page, res>>
       ELSE LET r == ServerCheckActive(lastSessionId, empView, c.res.body, appUser,
                                       View = "view-employee")
            IN  /\ lastSessionId' = r.lastSessionId
                /\ empView' = r.empView
                /\ res' = Response("checkEmployeeStatus", 0, "", r.toasts)
                /\ inflight' = IF r.lastSessionId = NoSession
                               THEN Without(c)
                               ELSE Proceed(c, Call("checkEmployeeStatus", "votes",
                                                    r.lastSessionId))
                /\ UNCHANGED adminControls
    /\ UNCHANGED <<variant, store, now, client>>

\* checkEmployeeStatus: the votes of the session answered; myVote decides
\* between the voted and the voting section
ServerCheckVotes(view, vs, sessionId, user, shown) ==
    LET my == FindIndex(vs, LAMBDA v : v.sessionId = sessionId /\ v.userId = user.id)
    IN  IF ~shown THEN view
        ELSE IF my # 0
        THEN [waiting |-> FALSE, voting |-> FALSE, voted |-> TRUE, text |-> vs[my].type]
        ELSE [waiting |-> FALSE, voting |-> TRUE, voted |-> FALSE, text |-> ""]

AppCheckVotes(c) ==
    /\ BagIn(c, inflight)
    /\ c.op = "checkEmployeeStatus" /\ c.pc = "answered" /\ c.call.pc = "votes"
    /\ inflight' = Without(c)
    /\ IF c.res.status # 200 \/ (appUser = NoUser /\ c.res.body # <<>>)
       THEN \* the fetch failed, or app.user.id throws in the callback of
            \* votes.find: caught and logged
            UNCHANGED <<page, res>>
       ELSE /\ empView' = ServerCheckVotes(empView, c.res.body, c.call.sessionId, appUser,
                                           View = "view-employee")
            /\ res' = Response("checkEmployeeStatus", 0, "", <<>>)
            /\ UNCHANGED <<lastSessionId, adminControls>>
    /\ UNCHANGED <<variant, store, now, client>>

\* handleLogin with `id` and `name` typed in and `mode` selected
LocalHandleLoginReq(id, name, mode) ==
    /\ variant = "local"
    /\ View = "view-login"
    /\ id # ""
    /\ LET r == LocalLogin(users, appUser, loginError, id, name, mode)
       IN  /\ WithinUsers(r.users)
           /\ users' = r.users
           /\ appUser' = r.appUser
           /\ loginError' = r.loginError
           /\ storedUser' = IF r.loginError THEN storedUser ELSE r.appUser
           /\ intervals' = IF r.loginError THEN intervals ELSE SetInterval(intervals)
           \* navigate(): initAdminDashboard calls updateAdminUI,
           \* initEmployeeDashboard calls checkEmployeeStatus
           /\ IF r.loginError
              THEN /\ res' = Response("handleLogin", 0, "", <<>>)
                   /\ UNCHANGED <<sessions, page>>
              ELSE IF r.appUser.role = "ADMIN"
              THEN LET u == LocalUpdateAdminUI(sessions, now)
                   IN  /\ sessions' = u.sessions
                       /\ adminControls' = u.adminControls
                       /\ res' = Response("handleLogin", 0, "", <<>>)
                       /\ UNCHANGED <<lastSessionId, empView>>
              ELSE LET c == CheckEmployeeStatus(lastSessionId, empView, sessions,
                                                votes, r.appUser)
                   IN  /\ lastSessionId' = c.lastSessionId
                       /\ empView' = c.empView
                       /\ res' = Response("handleLogin", 0, "", c.toasts)
                       /\ UNCHANGED <<sessions, adminControls>>
    /\ UNCHANGED <<variant, inflight, votes, nSessions, nVotes, now>>

LocalHandleLogin ==
    \E id \in EmployeeIdInputs, name \in NameInputs, mode \in RoleInputs :
        LocalHandleLoginReq(id, name, mode)

\* A returning user signs in: the name field is left empty
LocalSignIn ==
    \E id \in EmployeeIdInputs, mode \in RoleInputs :
        LocalHandleLoginReq(id, "", mode)

LocalStartSession ==
    /\ variant = "local"
    /\ View = "view-admin"
    /\ nSessions < MaxSessions
    /\ LET u == LocalUpdateAdminUI(LocalStart(sessions, nSessions, now), now)
       IN  /\ sessions' = u.sessions
           /\ adminControls' = u.adminControls
    /\ nSessions' = nSessions + 1
    /\ res' = Response("startSession", 0, "", <<>>)
    /\ UNCHANGED <<variant, inflight, users, votes, nVotes, now, client,
                   lastSessionId, empView>>

LocalEndSession ==
    /\ variant = "local"
    /\ View = "view-admin"
    /\ LET u == LocalUpdateAdminUI(LocalEnd(sessions, now), now)
       IN  /\ sessions' = u.sessions
           /\ adminControls' = u.adminControls
    /\ res' = Response("endSession", 0, "", <<>>)
    /\ UNCHANGED <<variant, inflight, users, votes, nSessions, nVotes, now, client,
                   lastSessionId, empView>>

LocalCastVote ==
    /\ variant = "local"
    /\ View = "view-employee"
    /\ ActiveSession(sessions) # 0
    /\ nVotes < MaxVotes
    /\ \E type \in LocalTypes(appUser) :
          LET r == LocalCast(sessions, votes, nVotes, now, appUser, type)
              c == CheckEmployeeStatus(lastSessionId, empView, r.sessions,
                                       r.votes, appUser)
          IN  /\ votes' = r.votes
              /\ sessions' = r.sessions
              /\ lastSessionId' = c.lastSessionId
              /\ empView' = c.empView
              /\ res' = Response("castVote", 0, "", c.toasts)
    /\ nVotes' = nVotes + 1
    /\ UNCHANGED <<variant, inflight, users, nSessions, now, client, adminControls>>

LocalDeleteSession ==
    /\ variant = "local"
    /\ View = "view-admin"
    /\ \E sessionId \in SessionIdInputs \ {""} :
          LET r == LocalDelete(sessions, votes, sessionId)
              u == LocalUpdateAdminUI(r.sessions, now)
          IN  /\ sessions' = u.sessions
              /\ votes' = r.votes
              /\ adminControls' = u.adminControls
    /\ res' = Response("deleteSession", 0, "", <<>>)
    /\ UNCHANGED <<variant, inflight, users, nSessions, nVotes, now, client,
                   lastSessionId, empView>>

\* The interval set by initAdminDashboard fires: updateAdminUI
LocalAdminTick ==
    /\ variant = "local"
    /\ View = "view-admin"
    /\ LET u == LocalUpdateAdminUI(sessions, now)
       IN  /\ sessions' = u.sessions
           /\ adminControls' = u.adminControls
    /\ res' = Response("updateAdminUI", 0, "", <<>>)
    /\ UNCHANGED <<variant, inflight, users, votes, nSessions, nVotes, now, client,
                   lastSessionId, empView>>

\* The interval set by initEmployeeDashboard fires: checkEmployeeStatus
LocalCheckEmployeeStatus ==
    /\ variant = "local"
    /\ View = "view-employee"
    /\ LET c == CheckEmployeeStatus(lastSessionId, empView, sessions, votes, appUser)
       IN  /\ lastSessionId' = c.lastSessionId
           /\ empView' = c.empView
           /\ res' = Response("checkEmployeeStatus", 0, "", c.toasts)
    /\ UNCHANGED <<variant, inflight, store, now, client, adminControls>>

---------------------------------------------------------------------------
(* Local-storage client: app.init, and castVote write by write.  The        *)
(* handlers are synchronous: nothing else runs in the page between the two  *)
(* writes of castVote, but the page can be closed between them.             *)

\* No handler is part-way through: the next operation begins after the
\* last one has run to completion
Quiet == inflight = EmptyBag

\* app.init, when the page is loaded: the storage keys are seeded when
\* absent (users = <<>> is the absent key: once seeded, the stored list
\* always holds the admin); app.user, app.lastSessionId and the elements of
\* the new document start as the script and the markup have them
\* (#login-error hidden); with a stored current user, navigate() opens the
\* dashboard as after a login
LocalInit ==
    /\ variant = "local"
    /\ Quiet
    /\ users' = IF users = <<>> THEN <<ADMIN_USER>> ELSE users
    /\ appUser' = storedUser
    /\ loginError' = FALSE
    /\ IF storedUser = NoUser
       THEN /\ intervals' = NoIntervals
            /\ lastSessionId' = NoSession
            /\ empView' = EmpViewBlank
            /\ adminControls' = NoControls
            /\ res' = Response("init", 0, "", <<>>)
            /\ UNCHANGED sessions
       ELSE IF storedUser.role = "ADMIN"
       THEN LET u == LocalUpdateAdminUI(sessions, now)
            IN  /\ intervals' = SetInterval(NoIntervals)
                /\ sessions' = u.sessions
                /\ adminControls' = u.adminControls
                /\ lastSessionId' = NoSession
                /\ empView' = EmpViewBlank
                /\ res' = Response("init", 0, "", <<>>)
       ELSE LET c == CheckEmployeeStatus(NoSession, EmpViewBlank, sessions,
                                         votes, storedUser)
            IN  /\ intervals' = SetInterval(NoIntervals)
                /\ lastSessionId' = c.lastSessionId
                /\ empView' = c.empView
                /\ adminControls' = NoControls
                /\ res' = Response("init", 0, "", c.toasts)
                /\ UNCHANGED sessions
    /\ UNCHANGED <<variant, inflight, votes, nSessions, nVotes, now, storedUser>>

\* castVote up to localStorage.setItem(VOTES): the vote is stored
LocalCastPush ==
    /\ variant = "local"
    /\ Quiet
    /\ View = "view-employee"
    /\ ActiveSession(sessions) # 0
    /\ nVotes < MaxVotes
    /\ \E type \in LocalTypes(appUser) :
          LET session == sessions[ActiveSession(sessions)]
              newVote == NewVote(nVotes + 1, now, session.id, appUser.id,
                                 appUser.name, type)
          IN  /\ votes' = Append(votes, newVote)
              /\ inflight' = SetToBag({Call("castVote", "inc", session.id)})
    /\ nVotes' = nVotes + 1
    /\ UNCHANGED <<variant, page, users, sessions, nSessions, now, client, res>>

\* castVote from the session count update to its end
LocalCastInc(c) ==
    /\ variant = "local"
    /\ BagIn(c, inflight)
    /\ c.op = "castVote" /\ c.pc = "inc"
    /\ sessions' = IncTotalVotes(sessions, FindSession(sessions, c.sessionId))
    /\ LET s == CheckEmployeeStatus(lastSessionId, empView, sessions', votes, appUser)
       IN  /\ lastSessionId' = s.lastSessionId
           /\ empView' = s.empView
           /\ res' = Response("castVote", 0, "", s.toasts)
    /\ inflight' = EmptyBag
    /\ UNCHANGED <<variant, users, votes, nSessions, nVotes, now, client, adminControls>>

\* The page is closed or reloaded while castVote is between its two writes
LocalCrash ==
    /\ variant = "local"
    /\ inflight # EmptyBag
    /\ inflight' = EmptyBag
    /\ UNCHANGED <<variant, page, store, now, client, res>>

---------------------------------------------------------------------------
(* The wall clock                                                          *)

\* The clock is observed every half session
ClockStep == SESSION_DURATION_MS \div 2

\* Date.now() moves on between two operations
Tick ==
    /\ now < MaxTime * ClockStep
    /\ now' = now + ClockStep
    /\ UNCHANGED <<variant, page, inflight, store, client, res>>

---------------------------------------------------------------------------
(* Server-backed client (src/app.js): the admin dashboard's poller.        *)
(* setInterval calls updateAdminUI every second; the handler is async and  *)
(* is suspended at each fetch.  Nothing tells two calls in the same state  *)
(* apart: the calls in progress are a bag.                                 *)

\* The callback of an interval that initAdminDashboard registered fires:
\* updateAdminUI starts and issues api.sessions.getActive().  logout clears
\* the interval of app.pollInterval only: one registered by an earlier
\* navigate() goes on firing
PollFire ==
    /\ variant = "server"
    /\ intervals.held \/ intervals.leaked
    /\ CallsIn(inflight) < MaxTicks
    /\ inflight' = WithCall(inflight, Call("updateAdminUI", "getActive", ""))
    /\ UNCHANGED <<variant, page, store, now, client, res>>

\* GET /api/sessions/active without a userId, as the page sends it:
\* Session.findOne({isActive: true}) and the response
GetActiveFetch(c) ==
    /\ variant = "server"
    /\ BagIn(c, inflight)
    /\ c.op \notin Routes /\ c.pc = "getActive"
    /\ inflight' = Proceed(c, Answered(c,
           Response("getActive", 200, "", Found(sessions, ActiveSession(sessions)))))
    /\ UNCHANGED <<variant, page, store, now, client, res>>

\* GET /api/stats: Vote.find() and the response
StatsFetch(c) ==
    /\ variant = "server"
    /\ BagIn(c, inflight)
    /\ c.op \notin Routes /\ c.pc = "stats"
    /\ inflight' = Proceed(c, Answered(c, Response("stats", 200, "", <<Stats(votes)>>)))
    /\ UNCHANGED <<variant, page, store, now, client, res>>

\* GET /api/votes/session/:sessionId: Vote.find({sessionId}) and the
\* response
VotesFetch(c) ==
    /\ variant = "server"
    /\ BagIn(c, inflight)
    /\ c.op \notin Routes /\ c.pc = "votes"
    /\ inflight' = Proceed(c, Answered(c,
           Response("votes", 200, "",
                    Filter(votes, LAMBDA v : v.sessionId = c.sessionId))))
    /\ UNCHANGED <<variant, page, store, now, client, res>>

\* GET /api/users: User.find() and the response
UsersFetch(c) ==
    /\ variant = "server"
    /\ BagIn(c, inflight)
    /\ c.op \notin Routes /\ c.pc = "users"
    /\ inflight' = Proceed(c, Answered(c, Response("users", 200, "", users)))
    /\ UNCHANGED <<variant, page, store, now, client, res>>

\* The pending fetch of the call `c` fails: api.request will throw
PollFail(c) ==
    /\ variant = "server"
    /\ BagIn(c, inflight)
    /\ c.op \in {"updateAdminUI", "endSession"} /\ c.pc # "answered"
    /\ inflight' = Proceed(c, Answered(c, FailedToFetch(c.pc)))
    /\ UNCHANGED <<variant, page, store, now, client, res>>

\* updateAdminUI: the answer of getActive arrives; stats requested.  A
\* failed fetch ends the call in the catch, which logs the error.
PollGetActive(c) ==
    /\ BagIn(c, inflight)
    /\ c.op = "updateAdminUI" /\ c.pc = "answered" /\ c.call.pc = "getActive"
    /\ inflight' =
          IF c.res.status # 200
          THEN Without(c)
          ELSE Proceed(c, Call("updateAdminUI", "stats",
                               IF c.res.body = <<>> THEN "" ELSE c.res.body[1].id))
    /\ UNCHANGED <<variant, page, store, now, client, res>>

\* updateAdminUI: the answer of stats arrives; the totals and the controls
\* are written, whichever section is shown.
\* No session: the idle controls are shown and the call ends.  A session:
\* the active controls are shown; diff <= 0: app.endSession() is called and
\* issues its getActive; otherwise the votes of the session are requested.
PollStats(c) ==
    /\ BagIn(c, inflight)
    /\ c.op = "updateAdminUI" /\ c.pc = "answered" /\ c.call.pc = "stats"
    /\ IF c.res.status # 200
       THEN /\ inflight' = Without(c)
            /\ UNCHANGED adminControls
       ELSE /\ adminControls' = IF c.call.sessionId = "" THEN "idle" ELSE "active"
            /\ inflight' =
                  IF c.call.sessionId = ""
                  THEN Without(c)
                  ELSE IF Expired(sessions, c.call.sessionId, now)
                  THEN Proceed(c, Call("endSession", "getActive", ""))
                  ELSE Proceed(c, Call("updateAdminUI", "votes", c.call.sessionId))
    /\ UNCHANGED <<variant, store, now, client, res, lastSessionId, empView>>

\* updateAdminUI: the votes of the session arrive; users requested
PollVotes(c) ==
    /\ BagIn(c, inflight)
    /\ c.op = "updateAdminUI" /\ c.pc = "answered" /\ c.call.pc = "votes"
    /\ inflight' = IF c.res.status # 200
                   THEN Without(c)
                   ELSE Proceed(c, Call("updateAdminUI", "users", ""))
    /\ UNCHANGED <<variant, page, store, now, client, res>>

\* updateAdminUI: the users arrive; the pending list is drawn, the call
\* ends
PollUsers(c) ==
    /\ BagIn(c, inflight)
    /\ c.op = "updateAdminUI" /\ c.pc = "answered" /\ c.call.pc = "users"
    /\ inflight' = Without(c)
    /\ UNCHANGED <<variant, page, store, now, client, res>>

\* endSession: the answer of getActive arrives.  A session: its end is
\* requested.  None: the toast is shown and app.updateAdminUI() is called
\* again.  A failed fetch: the catch shows the message.
EndGetActive(c) ==
    /\ BagIn(c, inflight)
    /\ c.op = "endSession" /\ c.pc = "answered" /\ c.call.pc = "getActive"
    /\ IF c.res.status # 200
       THEN /\ inflight' = Without(c)
            /\ res' = Response("endSession", c.res.status, c.res.error, <<c.res.error>>)
       ELSE IF c.res.body = <<>>
       THEN /\ inflight' = Proceed(c, Call("updateAdminUI", "getActive", ""))
            /\ res' = Response("endSession", 200, "", <<"Session Ended">>)
       ELSE /\ inflight' = Proceed(c, Handler("end", "arrive", "endSession",
                                              [id |-> c.res.body[1].id], <<>>))
            /\ UNCHANGED res
    /\ UNCHANGED <<variant, page, store, now, client>>

---------------------------------------------------------------------------
(* Specifications                                                          *)

\* Employees that registered through the login form before the voting
\* starts (first login with a name, src/app.js:644-653, app-firebase.js:144-148)
RegisteredEmployees ==
    <<[id |-> UserUuid(1), name |-> "Ann", employeeId |-> "EMP1", role |-> "EMPLOYEE"],
      [id |-> UserUuid(2), name |-> "Bob", employeeId |-> "EMP2", role |-> "EMPLOYEE"]>>

NoResponse == Response("none", 0, "", <<>>)

\* Sessions and votes, one operation at a time.  The admin is provisioned
\* and the employees are registered; server: the HTTP API, a request
\* arriving when the last one is answered, the second employee voting TEA
\* and the first sending COFFEE, a type outside the enum, and TEA under a
\* userName that is not the user's name; local: the whole client.
Init ==
    /\ variant \in {"server", "local"}
    /\ users = <<ADMIN_USER>> \o RegisteredEmployees
    /\ sessions = <<>>
    /\ votes = <<>>
    /\ nSessions = 0
    /\ nVotes = 0
    /\ now = 0
    /\ appUser = NoUser
    /\ loginError = FALSE
    /\ storedUser = appUser
    /\ intervals = NoIntervals
    /\ res = NoResponse
    /\ lastSessionId = NoSession
    /\ empView = EmpViewBlank
    /\ adminControls = NoControls
    /\ inflight = EmptyBag

Next ==
    \/ Quiet /\ \E userId \in UserIdInputs : GetActiveBegin(userId)
    \/ \E h \in Pending : GetActiveSession(h)
    \/ Quiet /\ \E userId \in UserIdInputs : StartBegin(userId)
    \/ \E h \in Pending : StartUpdateMany(h)
    \/ \E h \in Pending : StartCreate(h)
    \/ Quiet /\ PostSessionsEnd
    \/ \E h \in Pending : EndUpdate(h)
    \/ Quiet /\ \E req \in VoteRequests :
                   /\ req.userId = UserUuid(1) \/ req.type = "TEA"
                   /\ req.userId = UserUuid(1) /\ req.type = "TEA"
                         => req.userName # NameOf(users, req.userId)
                   /\ VoteBegin(req)
    \/ \E h \in Pending : VoteCreate(h)
    \/ \E h \in Pending : VoteInc(h)
    \/ LocalSignIn
    \/ LocalLogout
    \/ LocalStartSession
    \/ LocalEndSession
    \/ LocalCastVote
    \/ LocalDeleteSession

Spec == Init /\ [][Next]_vars

\* Authentication and the browser clients.  server: an empty database;
\* requests of other clients arrive one at a time, the login form of the
\* page can be submitted again before the answer; the page submits
\* PageLogins, and the user logs out when no call of updateAdminUI is
\* suspended.  local: after app.init() seeded the storage.  No session is
\* started, so a call of updateAdminUI ends when the stats have arrived.
ServerIds == {"EMP1", "ADM001"}

PageLogins ==
    {[employeeId |-> "EMP1",   name |-> "Ann", role |-> "EMPLOYEE"],
     [employeeId |-> "EMP1",   name |-> "",    role |-> "EMPLOYEE"],
     [employeeId |-> "EMP1",   name |-> "",    role |-> "ADMIN"],
     [employeeId |-> "ADM001", name |-> "",    role |-> "ADMIN"]}

InitAuth ==
    /\ variant \in {"server", "local"}
    /\ users = IF variant = "local" THEN <<ADMIN_USER>> ELSE <<>>
    /\ sessions = <<>>
    /\ votes = <<>>
    /\ nSessions = 0
    /\ nVotes = 0
    /\ now = 0
    /\ appUser = NoUser
    /\ loginError = FALSE
    /\ storedUser = appUser
    /\ intervals = NoIntervals
    /\ res = NoResponse
    /\ lastSessionId = NoSession
    /\ empView = EmpViewBlank
    /\ adminControls = NoControls
    /\ inflight = EmptyBag

NextAuth ==
    \/ Quiet /\ InitBegin
    \/ \E h \in Pending : InitCreate(h)
    \/ Quiet /\ \E req \in LoginRequests :
                   req.employeeId \in ServerIds \cup {""} /\ LoginBegin(req)
    \/ \E req \in PageLogins : AppHandleLoginReq(req.employeeId, req.name, req.role)
    \/ \E h \in Pending : LoginFind(h)
    \/ \E h \in Pending : LoginCreate(h)
    \/ \E h \in Pending : AppResume(h)
    \/ CallsIn(inflight) = 0 /\ AppLogout
    \/ \E c \in Pending : GetActiveFetch(c)
    \/ \E c \in Pending : PollGetActive(c)
    \/ \E c \in Pending : StatsFetch(c)
    \/ \E c \in Pending : PollStats(c)
    \/ LocalHandleLogin
    \/ LocalLogout

SpecAuth == InitAuth /\ [][NextAuth]_vars


\* The handlers of the server with requests in flight together, and the
\* server stopping.  server: an empty database and MaxRequests requests in
\* flight at most; local: the storage before app.init seeded it, or with the
\* employees registered.
InitRace ==
    /\ variant \in {"server", "local"}
    /\ users \in IF variant = "local"
                 THEN {<<>>, <<ADMIN_USER>> \o RegisteredEmployees}
                 ELSE {<<>>}
    /\ sessions = <<>>
    /\ votes = <<>>
    /\ nSessions = 0
    /\ nVotes = 0
    /\ now = 0
    /\ appUser = NoUser
    /\ loginError = FALSE
    /\ storedUser = appUser
    /\ intervals = NoIntervals
    /\ res = NoResponse
    /\ lastSessionId = NoSession
    /\ empView = EmpViewBlank
    /\ adminControls = NoControls
    /\ inflight = EmptyBag

\* Local handlers start when the page is seeded and no handler is running
LocalReady == Quiet /\ users # <<>>

NextRace ==
    \/ InitBegin
    \/ \E h \in Pending : InitCreate(h)
    \/ \E userId \in {ADMIN_USER.id, GhostId} : StartBegin(userId)
    \/ \E h \in Pending : StartUpdateMany(h)
    \/ \E h \in Pending : StartCreate(h)
    \/ \E sid \in SessionIdInputs \ {GhostId}, type \in {"TEA", "WATER"} :
          VoteBegin([sessionId |-> sid, userId |-> UserUuid(1), userName |-> "Ann",
                     type |-> type])
    \/ \E h \in Pending : VoteCreate(h)
    \/ \E h \in Pending : VoteInc(h)
    \/ ServerCrash
    \/ LocalInit
    \/ LocalReady /\ LocalSignIn
    \/ LocalReady /\ LocalLogout
    \/ LocalReady /\ LocalStartSession
    \/ LocalReady /\ LocalDeleteSession
    \/ LocalCastPush
    \/ \E c \in Pending : LocalCastInc(c)
    \/ LocalCrash

SpecRace == InitRace /\ [][NextRace]_vars


\* Sessions and votes with the clock running.  The admin is provisioned and
\* the employees are registered; server: start requests that arrive when
\* nothing is in flight, end requests one at a time and vote requests of
\* the first employee; local: the admin's handlers.
NextTime ==
    \/ Tick
    \/ Quiet /\ StartBegin(ADMIN_USER.id)
    \/ \E h \in Pending : StartUpdateMany(h)
    \/ \E h \in Pending : StartCreate(h)
    \/ InFlight("end") = 0 /\ PostSessionsEnd
    \/ \E h \in Pending : EndUpdate(h)
    \/ \E req \in VoteRequests :
          /\ req.userId = UserUuid(1) /\ req.userName = "Ann" /\ req.type = "TEA"
          /\ VoteBegin(req)
    \/ \E h \in Pending : VoteCreate(h)
    \/ \E h \in Pending : VoteInc(h)
    \/ LocalSignIn
    \/ LocalStartSession
    \/ LocalEndSession

SpecTime == Init /\ [][NextTime]_vars


\* The admin dashboard of the server-backed client stays open: the admin is
\* logged in, navigate() has shown the dashboard, called updateAdminUI and
\* set the interval; sessions are started one at a time by requests that
\* carry the admin's id, the clock runs and the poller ticks.
InitPoll ==
    /\ variant = "server"
    /\ users = <<ADMIN_USER>> \o RegisteredEmployees
    /\ sessions = <<>>
    /\ votes = <<>>
    /\ nSessions = 0
    /\ nVotes = 0
    /\ now = 0
    /\ appUser = ADMIN_USER
    /\ loginError = FALSE
    /\ storedUser = appUser
    /\ intervals = SetInterval(NoIntervals)
    /\ res = NoResponse
    /\ lastSessionId = NoSession
    /\ empView = EmpViewBlank
    /\ adminControls = NoControls
    /\ inflight = SetToBag({Call("updateAdminUI", "getActive", "")})

NextPoll ==
    \/ Tick
    \/ InFlight("start") = 0 /\ StartBegin(ADMIN_USER.id)
    \/ \E h \in Pending : StartUpdateMany(h)
    \/ \E h \in Pending : StartCreate(h)
    \/ PollFire
    \/ \E c \in Pending : GetActiveFetch(c)
    \/ \E c \in Pending : StatsFetch(c)
    \/ \E c \in Pending : VotesFetch(c)
    \/ \E c \in Pending : UsersFetch(c)
    \/ \E c \in Pending : PollGetActive(c)
    \/ \E c \in Pending : PollStats(c)
    \/ \E c \in Pending : PollVotes(c)
    \/ \E c \in Pending : PollUsers(c)
    \/ \E c \in Pending : EndGetActive(c)
    \/ \E h \in Pending : EndArrive(h)
    \/ \E h \in Pending : EndUpdate(h)
    \/ \E h \in Pending : AppResume(h)

\* The next step of the call `c` in the page: the answer to its fetch
\* arrives
PollStep(c) ==
    \/ PollGetActive(c)
    \/ PollStats(c)
    \/ PollVotes(c)
    \/ PollUsers(c)
    \/ EndGetActive(c)
    \/ AppResume(c)

SpecPoll == InitPoll /\ [][NextPoll]_vars

\* The same dashboard for what the poller comes to when every request is
\* answered: a start request arrives while at most one call of the poller
\* is suspended and is answered before the poller goes on, and the calls
\* of the poller end within one step of the clock
StartStep ==
    \/ \E h \in Pending : StartUpdateMany(h)
    \/ \E h \in Pending : StartCreate(h)

NextExpiry ==
    \/ Quiet /\ Tick
    \/ CallsIn(inflight) <= 1 /\ InFlight("start") = 0 /\ StartBegin(ADMIN_USER.id)
    \/ StartStep
    \/ InFlight("start") = 0 /\ PollFire
    \/ InFlight("start") = 0 /\ \E c \in Pending : GetActiveFetch(c)
    \/ InFlight("start") = 0 /\ \E c \in Pending : StatsFetch(c)
    \/ InFlight("start") = 0 /\ \E c \in Pending : VotesFetch(c)
    \/ InFlight("start") = 0 /\ \E c \in Pending : UsersFetch(c)
    \/ InFlight("start") = 0 /\ \E c \in Pending : PollGetActive(c)
    \/ InFlight("start") = 0 /\ \E c \in Pending : PollStats(c)
    \/ InFlight("start") = 0 /\ \E c \in Pending : PollVotes(c)
    \/ InFlight("start") = 0 /\ \E c \in Pending : PollUsers(c)
    \/ InFlight("start") = 0 /\ \E c \in Pending : EndGetActive(c)
    \/ InFlight("start") = 0 /\ \E h \in Pending : EndArrive(h)
    \/ InFlight("start") = 0 /\ \E h \in Pending : EndUpdate(h)
    \/ InFlight("start") = 0 /\ \E h \in Pending : AppResume(h)

\* The interval timer keeps firing while the dashboard is open, and the
\* server keeps answering: the start requests, and the requests of each
\* kind that the poller makes, whose answers arrive (the premise "its
\* requests succeed")
SpecExpiry ==
    /\ InitPoll
    /\ [][NextExpiry]_vars
    /\ WF_vars(StartStep)
    /\ WF_vars(InFlight("start") = 0 /\ PollFire)
    /\ WF_vars(InFlight("start") = 0 /\ \E c \in Pending : GetActiveFetch(c))
    /\ WF_vars(InFlight("start") = 0 /\ \E c \in Pending : StatsFetch(c))
    /\ WF_vars(InFlight("start") = 0 /\ \E c \in Pending : VotesFetch(c))
    /\ WF_vars(InFlight("start") = 0 /\ \E c \in Pending : UsersFetch(c))
    /\ WF_vars(InFlight("start") = 0 /\ \E c \in Pending : PollGetActive(c))
    /\ WF_vars(InFlight("start") = 0 /\ \E c \in Pending : PollStats(c))
    /\ WF_vars(InFlight("start") = 0 /\ \E c \in Pending : PollVotes(c))
    /\ WF_vars(InFlight("start") = 0 /\ \E c \in Pending : PollUsers(c))
    /\ WF_vars(InFlight("start") = 0 /\ \E c \in Pending : EndGetActive(c))
    /\ WF_vars(InFlight("start") = 0 /\ \E h \in Pending : EndArrive(h))
    /\ WF_vars(InFlight("start") = 0 /\ \E h \in Pending : EndUpdate(h))
    /\ WF_vars(InFlight("start") = 0 /\ \E h \in Pending : AppResume(h))


\* The admin dashboard of the server-backed client with the logout button:
\* logout clears the interval timer and shows the login view; the calls of
\* updateAdminUI and endSession that are suspended at a fetch are resumed
\* when their response arrives.
NextLogout ==
    \/ NextPoll
    \/ AppLogout

SpecLogout == InitPoll /\ [][NextLogout]_vars

\* The page of the server-backed client in the hands of the admin, from an
\* empty database on, the clock stopped: the page is loaded, the admin
\* logs in and out and presses the Start and End buttons when nothing is
\* in flight, the interval fires and the server stops when no call is
\* suspended at a fetch.  Another client of the API, which sends the
\* admin's id with its request, starts sessions when nothing is in flight
NextAdmin ==
    \/ Quiet /\ StartBegin(ADMIN_USER.id)
    \/ AppInit
    \/ \E h \in Pending : InitFind(h)
    \/ \E h \in Pending : InitCreate(h)
    \/ AppHandleLoginReq("ADM001", "", "ADMIN")
    \/ \E h \in Pending : LoginFind(h)
    \/ AppLogout
    \/ Quiet /\ AppStartSession
    \/ \E h \in Pending : StartFind(h)
    \/ \E h \in Pending : StartUpdateMany(h)
    \/ \E h \in Pending : StartCreate(h)
    \/ Quiet /\ AppEndSession
    \/ \E h \in Pending : AppResume(h)
    \/ CallsIn(inflight) = 0 /\ PollFire
    \/ \E c \in Pending : GetActiveFetch(c)
    \/ \E c \in Pending : StatsFetch(c)
    \/ \E c \in Pending : VotesFetch(c)
    \/ \E c \in Pending : UsersFetch(c)
    \/ \E c \in Pending : PollGetActive(c)
    \/ \E c \in Pending : PollStats(c)
    \/ \E c \in Pending : PollVotes(c)
    \/ \E c \in Pending : PollUsers(c)
    \/ \E c \in Pending : EndGetActive(c)
    \/ \E h \in Pending : EndArrive(h)
    \/ \E h \in Pending : EndUpdate(h)
    \/ CallsIn(inflight) = 0 /\ ServerCrash

\* The server with an empty database, no page loaded yet
InitAdmin == InitAuth /\ variant = "server"

SpecAdmin == InitAdmin /\ [][NextAdmin]_vars

\* The employee dashboard.  The page was loaded with the first employee as
\* the stored user.  local: initEmployeeDashboard made its first call of
\* checkEmployeeStatus, which found no session, and set the interval; users
\* log out and in, the admin starts, ends and deletes sessions, the
\* employees vote.  server: initEmployeeDashboard showed the waiting
\* section; sessions are started and ended by requests that carry the
\* admin's id, the employees sign in when nothing is in flight, sign out
\* and call castVote, one call at a time.
InitEmp ==
    /\ variant \in {"server", "local"}
    /\ users = <<ADMIN_USER>> \o RegisteredEmployees
    /\ sessions = <<>>
    /\ votes = <<>>
    /\ nSessions = 0
    /\ nVotes = 0
    /\ now = 0
    /\ appUser = RegisteredEmployees[1]
    /\ loginError = FALSE
    /\ storedUser = appUser
    /\ intervals = IF variant = "local" THEN SetInterval(NoIntervals) ELSE NoIntervals
    /\ res = Response("init", 0, "", <<>>)
    /\ lastSessionId = NoSession
    /\ empView = Waiting
    /\ adminControls = NoControls
    /\ inflight = EmptyBag

\* The page of the local-storage client
InitDel == InitEmp /\ variant = "local"

NextLocalEmp ==
    \/ LocalCheckEmployeeStatus
    \/ LocalSignIn
    \/ LocalLogout
    \/ LocalStartSession
    \/ LocalEndSession
    \/ LocalCastVote
    \/ LocalDeleteSession

SpecLocalEmp == InitDel /\ [][NextLocalEmp]_vars

NextEmp ==
    \/ NextLocalEmp
    \/ Quiet /\ StartBegin(ADMIN_USER.id)
    \/ \E h \in Pending : StartUpdateMany(h)
    \/ \E h \in Pending : StartCreate(h)
    \/ Quiet /\ PostSessionsEnd
    \/ \E h \in Pending : EndUpdate(h)
    \/ Quiet /\ \E id \in {"EMP1", "EMP2"} : AppHandleLoginReq(id, "", "EMPLOYEE")
    \/ \E h \in Pending : LoginFind(h)
    \/ \E h \in Pending : AppResume(h)
    \/ AppLogout
    \/ CallsIn(inflight) = 0 /\ AppCastVote
    \/ \E c \in Pending : GetActiveFetch(c)
    \/ \E c \in Pending : VotesFetch(c)
    \/ \E c \in Pending : AppCastGetActive(c)
    \/ \E h \in Pending : VoteFind(h)
    \/ \E h \in Pending : VoteCreate(h)
    \/ \E h \in Pending : VoteInc(h)
    \/ \E c \in Pending : AppCheckGetActive(c)
    \/ \E c \in Pending : AppCheckVotes(c)

SpecEmp == InitEmp /\ [][NextEmp]_vars

\* The local-storage client with the clock running: the page of SpecLocalEmp,
\* the admin dashboard's interval, and sessions that outlast their 10
\* minutes.  The admin and the first employee sign in in turn, the employee
\* votes TEA; a session ends when the next one starts or when it expires.
NextDel ==
    \/ Tick
    \/ LocalAdminTick
    \/ \E id \in {"EMP1", "oe10"}, mode \in RoleInputs : LocalHandleLoginReq(id, "", mode)
    \/ LocalLogout
    \/ LocalStartSession
    \/ LocalCastVote /\ votes'[Len(votes')].type = "TEA"
    \/ LocalDeleteSession

SpecDel == InitDel /\ [][NextDel]_vars

\* The admin dashboard of the server-backed client when requests can fail:
\* a fetch fails by itself, or the server stops
NextFail ==
    \/ NextPoll
    \/ \E c \in Pending : PollFail(c)
    \/ ServerCrash

SpecFail == InitPoll /\ [][NextFail]_vars

---------------------------------------------------------------------------
(* Properties                                                              *)

\* Positions of the active sessions
ActiveSet == {i \in DOMAIN sessions : sessions[i].isActive}

\* Positions of the votes stored for (sessionId, userId)
VotesOf(sessionId, userId) ==
    {i \in DOMAIN votes : votes[i].sessionId = sessionId /\ votes[i].userId = userId}

\* How many route handlers a bag holds
HandlersIn(b) == BagCardinality(b) - CallsIn(b)

\* A step in which a request of another client can have arrived: the route
\* `op` has answered at once, or one more of its handlers is in flight
Arrival(op) ==
    /\ variant = "server"
    /\ IF inflight' = inflight
       THEN res'.op = op
       ELSE \E h \in BagToSet(inflight') :
               h.op = op /\ CopiesIn(h, inflight') > CopiesIn(h, inflight)

\* The responses that a step puts on their way to the page
Sent ==
    {g.doc : g \in {x \in BagToSet(inflight') :
                       /\ x.op \in Routes /\ x.pc = "answered"
                       /\ CopiesIn(x, inflight') > CopiesIn(x, inflight)}}

\* The step in which POST /api/auth/login answers the request `req` that
\* `from` sent: the findOne when it settles the request, or the create.
\* The response is res' for another client, and in Sent for the page
LoginAnswer(req, from) ==
    \/ /\ from = "api"
       /\ inflight' = inflight
       /\ LoginBegin(req)
    \/ /\ IF from = "api"
          THEN HandlersIn(inflight') < HandlersIn(inflight)
          ELSE Sent # {}
       /\ \E h \in Pending :
             /\ h.op = "login" /\ h.pc # "answered" /\ h.req = req /\ h.from = from
             /\ LoginFind(h) \/ LoginCreate(h)

\* The step in which the response r of route `op` reaches the page
Arrives(op, r) ==
    \E h \in Pending :
        h.op = op /\ h.pc = "answered" /\ h.doc = r /\ AppResume(h)

\* C1: after any sequence of startSession, endSession and castVote, each run
\* to completion, at most one session has isActive = TRUE (both variants).
C1_AtMostOneActive == Cardinality(ActiveSet) <= 1

\* C1 witness: a second session was just started and the first one is no
\* longer active.
C1_Witness ==
    /\ res.op \in {"start", "startSession"}
    /\ Len(sessions) = 2
    /\ Cardinality(ActiveSet) = 1

\* C2: a server castVote for a (sessionId, userId) that already has a vote,
\* with any type, is answered 400 "User already voted in this session" by
\* the step that looks the pair up, and leaves the votes and the sessions
\* (hence every totalVotes) unchanged: no handler goes on to the insert with
\* a pair that has a vote, and the answer of such a request is that refusal.
C2_DuplicateVoteRejected ==
    [][/\ \A h \in BagToSet(inflight') :
             (/\ h.op = "vote" /\ h.pc = "create" /\ h.from = "api"
              /\ CopiesIn(h, inflight') > CopiesIn(h, inflight))
             => VotesOf(h.req.sessionId, h.req.userId) = {}
       /\ (variant = "server" /\ inflight' = inflight /\ res'.op = "vote")
          => \A i \in DOMAIN votes, type \in {"COFFEE", "TEA", "WATER"} :
                VoteBegin([sessionId |-> votes[i].sessionId, userId |-> votes[i].userId,
                           userName |-> votes[i].userName, type |-> type])
                => /\ res'.status = 400
                   /\ res'.error = "User already voted in this session"
                   /\ votes' = votes
                   /\ sessions' = sessions]_vars

\* C2 witness: a vote request was just refused as a duplicate while a vote
\* and its counted session are stored.
C2_Witness ==
    /\ res.op = "vote"
    /\ res.status = 400
    /\ res.error = "User already voted in this session"
    /\ \E i \in DOMAIN sessions : sessions[i].totalVotes = 1
    /\ Len(votes) = 1

\* C3: with no castVote in flight (every handler has run to completion),
\* each stored session's totalVotes is the number of votes that name it.
C3_TotalVotesMatches ==
    Quiet
    => \A i \in DOMAIN sessions :
          sessions[i].totalVotes =
              Cardinality({j \in DOMAIN votes : votes[j].sessionId = sessions[i].id})

\* C3 witness: two different employees voted COFFEE and TEA in one session,
\* whose totalVotes is 2, and no handler is in flight.
C3_Witness ==
    /\ Quiet
    /\ \E i \in DOMAIN sessions, a, b \in DOMAIN votes :
          /\ sessions[i].totalVotes = 2
          /\ votes[a].sessionId = sessions[i].id
          /\ votes[b].sessionId = sessions[i].id
          /\ votes[a].userId # votes[b].userId
          /\ votes[a].type = "COFFEE"
          /\ votes[b].type = "TEA"

\* C4: GET /sessions/active with a (non-empty) userId that names an employee
\* or no user at all answers null at once, whatever the sessions are, and
\* changes nothing in the store.
C4_NonAdminSeesNoSession ==
    [][Arrival("getActive") => \A userId \in UserIdInputs \ {""} :
          (/\ ~\E i \in DOMAIN users : users[i].id = userId /\ users[i].role = "ADMIN"
           /\ GetActiveBegin(userId))
          => /\ inflight' = inflight
             /\ res'.op = "getActive"
             /\ res'.body = <<>>
             /\ UNCHANGED store]_vars

\* C4 witness: the request was answered null while a session is active.
C4_Witness ==
    /\ res.op = "getActive"
    /\ res.body = <<>>
    /\ ActiveSet # {}

\* C5: POST /sessions/start by a requester that is not a user with role
\* ADMIN (an employee, an unknown id, no id) is answered 403, creates no
\* session and leaves every stored session as it was.
C5_StartForbiddenForNonAdmin ==
    [][/\ Arrival("start") => \A userId \in UserIdInputs :
             (/\ ~\E i \in DOMAIN users : users[i].id = userId /\ users[i].role = "ADMIN"
              /\ StartBegin(userId))
             => /\ inflight' = inflight
                /\ res'.op = "start"
                /\ res'.status = 403
                /\ sessions' = sessions
                /\ nSessions' = nSessions
       /\ \A h \in Pending :
             (h.op = "start" /\ (StartUpdateMany(h) \/ StartCreate(h)))
             => \E i \in DOMAIN users :
                   users[i].id = h.req.userId /\ users[i].role = "ADMIN"]_vars

\* C5 witness: a start request was answered 403 while a session is active
\* and an employee is registered, and that session is still active.
C5_Witness ==
    /\ res.op = "start"
    /\ res.status = 403
    /\ ActiveSet # {}
    /\ \E i \in DOMAIN users : users[i].role = "EMPLOYEE"

\* C6: when a logged-in admin invokes startSession through the client, the
\* request is accepted: it passes the test of the requester, and a new
\* active session with totalVotes = 0 is created and reported to the page.
C6_AdminStartAccepted ==
    [][\A h \in Pending :
          (h.op = "start" /\ h.from = "startSession" /\ appUser.role = "ADMIN")
          => /\ StartFind(h)
                => \E g \in BagToSet(inflight') :
                      g.op = "start" /\ g.from = "startSession" /\ g.pc = "updateMany"
             /\ StartCreate(h)
                => \E i \in DOMAIN sessions' :
                      /\ i \notin DOMAIN sessions
                      /\ sessions'[i].isActive
                      /\ sessions'[i].totalVotes = 0
                      /\ Sent = {Response("start", 200, "", <<sessions'[i]>>)}
             /\ (h.pc = "answered" /\ h.doc.status = 200 /\ AppResume(h))
                => res'.op = "startSession" /\ res'.status = 200]_vars

\* C7: an employee login with an employeeId that no record has and with no
\* name fails (401 on the server, the login error shown in the client when
\* that answer reaches it), creates no user and logs no user in.
C7_FirstLoginRequiresName ==
    [][/\ \A id \in EmployeeIdInputs \ {""} :
             LET req == [employeeId |-> id, name |-> "", role |-> "EMPLOYEE"]
             IN  (\A i \in DOMAIN users : users[i].employeeId # id)
                 => /\ LoginBegin(req) => inflight' = inflight
                    /\ LoginAnswer(req, "api")
                       => /\ res'.op = "login"
                          /\ res'.status = 401
                          /\ users' = users
                          /\ UNCHANGED client
                    /\ LoginAnswer(req, "handleLogin")
                       => /\ Sent = {Response("login", 401, UserNotFound, <<>>)}
                          /\ users' = users
                          /\ UNCHANGED client
                    /\ LocalHandleLoginReq(id, "", "EMPLOYEE")
                       => /\ users' = users
                          /\ appUser' = NoUser
                          /\ loginError'
       /\ Arrives("login", Response("login", 401, UserNotFound, <<>>))
          => /\ res'.op = "handleLogin"
             /\ res'.status = 401
             /\ users' = users
             /\ appUser' = appUser
             /\ storedUser' = storedUser
             /\ loginError']_vars

\* C7 witness: the client's login was just refused with "User not found...",
\* nobody is logged in, the error is shown and no employee is stored.
C7_Witness ==
    /\ res.op = "handleLogin"
    /\ res.status = 401
    /\ res.error = UserNotFound
    /\ appUser = NoUser
    /\ loginError
    /\ \A i \in DOMAIN users : users[i].role # "EMPLOYEE"

\* C8: an employee login with a name whose insert finds no record with its
\* employeeId appends exactly one user (that employeeId, that name, role
\* EMPLOYEE) and returns it; an employee login whose lookup finds a stored
\* employee with its employeeId, with any name or none, returns the stored
\* record at once and leaves the users unchanged; and no two users ever
\* share an employeeId.  (A login whose insert finds the employeeId stored
\* since its lookup stores nothing: the unique index refuses it.)
C8_LoginOrRegisterOnce ==
    [][LET Outcome(id, name, lookup, Returned(_)) ==
               LET known == {i \in DOMAIN users : users[i].employeeId = id}
                   emps  == {i \in known : users[i].role = "EMPLOYEE"}
               IN  /\ (~lookup /\ known = {} /\ name # "")
                      => /\ Len(users') = Len(users) + 1
                         /\ SubSeq(users', 1, Len(users)) = users
                         /\ users'[Len(users')].employeeId = id
                         /\ users'[Len(users')].name = name
                         /\ users'[Len(users')].role = "EMPLOYEE"
                         /\ \A i \in DOMAIN users : users[i].id # users'[Len(users')].id
                         /\ Returned(users'[Len(users')])
                   /\ (lookup /\ emps # {})
                      => /\ users' = users
                         /\ \E i \in emps : Returned(users[i])
                         /\ \A g \in BagToSet(inflight') :
                               (g.op = "login" /\ g.pc # "answered")
                               => CopiesIn(g, inflight') <= CopiesIn(g, inflight)
                   /\ (~lookup /\ known # {}) => users' = users
           Api(u)   == res'.op = "login" /\ res'.status = 200 /\ res'.body = <<u>>
           Page(u)  == Sent = {Response("login", 200, "", <<u>>)}
           Local(u) == appUser' = u /\ ~loginError'
           before   == HandlersIn(inflight)
           after    == HandlersIn(inflight')
       IN  /\ users' # users
              => \A i, j \in DOMAIN users' :
                    users'[i].employeeId = users'[j].employeeId => i = j
           /\ (/\ variant = "server"
               /\ \/ res'.op = "login" /\ inflight' = inflight
                  \/ after > before)
              => \A id \in EmployeeIdInputs \ {""}, name \in NameInputs :
                    LoginBegin([employeeId |-> id, name |-> name, role |-> "EMPLOYEE"])
                    => Outcome(id, name, TRUE, Api)
           /\ (variant = "server" /\ inflight' # inflight /\ after <= before)
              => \A h \in Pending :
                    (h.op = "login" /\ h.pc # "answered" /\ h.req.role = "EMPLOYEE")
                    => /\ (h.from = "api" /\ LoginCreate(h))
                          => Outcome(h.req.employeeId, h.req.name, FALSE, Api)
                       /\ (h.from = "handleLogin" /\ LoginCreate(h))
                          => Outcome(h.req.employeeId, h.req.name, FALSE, Page)
                       /\ (h.from = "handleLogin" /\ LoginFind(h))
                          => Outcome(h.req.employeeId, h.req.name, TRUE, Page)
           /\ \A h \in Pending :
                 (/\ h.op = "login" /\ h.pc = "answered" /\ h.doc.status = 200
                  /\ AppResume(h))
                 => /\ res'.op = "handleLogin"
                    /\ res'.status = 200
                    /\ res'.body = h.doc.body
                    /\ appUser' = h.doc.body[1]
                    /\ storedUser' = h.doc.body[1]
                    /\ users' = users
           /\ variant = "local"
              => \A id \in EmployeeIdInputs \ {""}, name \in NameInputs :
                    (res'.op = "handleLogin" /\ LocalHandleLoginReq(id, name, "EMPLOYEE"))
                    => /\ Outcome(id, name, TRUE, Local)
                       /\ Outcome(id, name, FALSE, Local)]_vars

\* C8 witness: the client's login just returned an employee that registered
\* under another name than the one this login gave.
C8_Witness ==
    /\ res.op = "handleLogin"
    /\ res.status = 200
    /\ variant = "server"
    /\ appUser.role = "EMPLOYEE"
    /\ appUser.name = "Bob"
    /\ \E i \in DOMAIN users : users[i] = appUser

\* C9: in the local-storage variant the stored votes hold at most one vote
\* per (sessionId, userId).
C9_LocalOneVotePerUser ==
    variant = "local"
    => \A i, j \in DOMAIN votes :
          (votes[i].sessionId = votes[j].sessionId /\ votes[i].userId = votes[j].userId)
          => i = j

\* C10: an admin-mode login succeeds only when an admin record is stored and
\* the supplied code is that record's employeeId; otherwise it fails (401,
\* the login error shown) and logs no user in.
C10_AdminLoginNeedsAdminCode ==
    [][\A id \in EmployeeIdInputs \ {""}, name \in NameInputs :
          LET req   == [employeeId |-> id, name |-> name, role |-> "ADMIN"]
              match == \E i \in DOMAIN users :
                          users[i].role = "ADMIN" /\ users[i].employeeId = id
          IN  ~match
              => /\ LoginAnswer(req, "api") => res'.status = 401
                 /\ LoginAnswer(req, "handleLogin")
                    => \A r \in Sent : r.status = 401
                 /\ LocalHandleLoginReq(id, name, "ADMIN")
                    => appUser' = NoUser /\ loginError']_vars

\* C11: a castVote whose type is outside {COFFEE, TEA} is answered 400 and
\* stores no vote, and every stored vote has type COFFEE or TEA.
C11_InvalidTypeRejected ==
    [][/\ Arrival("vote") => \A req \in VoteRequests :
             (req.type \notin {"", "COFFEE", "TEA"} /\ VoteBegin(req))
             => /\ inflight' = inflight
                /\ res'.op = "vote"
                /\ res'.status = 400
                /\ votes' = votes
       /\ \A i \in DOMAIN votes' : votes'[i].type \in {"COFFEE", "TEA"}]_vars

\* C14: a session that is inactive stays inactive for as long as it is
\* stored, whatever startSession, endSession, castVote or deleteSession does
\* (sessions are told apart by id: the local variant reorders them).
C14_EndedStaysEnded ==
    [][\A i \in DOMAIN sessions, j \in DOMAIN sessions' :
          (sessions[i].id = sessions'[j].id /\ ~sessions[i].isActive)
          => ~sessions'[j].isActive]_vars

\* C14 witness: a session was just started while an explicitly ended one is
\* stored, and the ended one is still inactive.
C14_Witness ==
    /\ res.op \in {"start", "startSession"}
    /\ \E i, j \in DOMAIN sessions :
          /\ ~sessions[i].isActive
          /\ sessions[i].endTime # NoTime
          /\ sessions[j].isActive

\* Positions of the users with role ADMIN
AdminSet(us) == {i \in DOMAIN us : us[i].role = "ADMIN"}

\* C13: whenever a POST /api/init (or the local app.init) has answered,
\* exactly one user has role ADMIN and its code is ADM001; there is never
\* more than one; and a step of an init made while an admin is stored
\* changes no stored record and, on the server, no client state.
C13_InitIdempotent ==
    [][/\ Cardinality(AdminSet(users')) <= 1
       /\ (\/ InitBegin /\ inflight' = inflight
           \/ \E h \in Pending : InitCreate(h)
           \/ LocalInit)
          => /\ Cardinality(AdminSet(users')) = 1
             /\ \A i \in AdminSet(users') : users'[i].employeeId = "ADM001"
       /\ (/\ AdminSet(users) # {}
           /\ (InitBegin \/ \E h \in Pending : InitCreate(h)))
          => UNCHANGED <<store, client>>
       /\ (AdminSet(users) # {} /\ LocalInit) => UNCHANGED store]_vars

\* C15: with updateMany and create of concurrent start requests interleaved,
\* no two stored sessions are active at once.
C15_OneActiveWhenInterleaved ==
    \A i, j \in DOMAIN sessions :
        (sessions[i].isActive /\ sessions[j].isActive) => i = j

\* C16: Vote.create of a castVote that passed the existence check stores the
\* vote whatever was stored meanwhile, also when a vote for the same
\* (sessionId, userId) now exists: nothing re-checks the pair at the insert.
C16_InsertIgnoresExistingVote ==
    [][\A h \in Pending :
          (/\ h.op = "vote"
           /\ VoteCreate(h)
           /\ h.req.type \in {"COFFEE", "TEA"})
          => /\ Len(votes') = Len(votes) + 1
             /\ votes'[Len(votes')].sessionId = h.req.sessionId
             /\ votes'[Len(votes')].userId = h.req.userId]_vars

\* C16 witness: two requests for one (sessionId, userId) have both answered
\* and two votes for that pair are stored.
C16_Witness ==
    /\ variant = "server"
    /\ Quiet
    /\ res.op = "vote"
    /\ res.status = 200
    /\ \E i, j \in DOMAIN votes, k \in DOMAIN sessions :
          /\ i # j
          /\ votes[i].sessionId = votes[j].sessionId
          /\ votes[i].userId = votes[j].userId
          /\ sessions[k].id = votes[i].sessionId
          /\ sessions[k].totalVotes = 2

\* C17: at every point, also between the insert and the increment of a
\* castVote and after a crash between the two, each stored session's
\* totalVotes is at most the number of votes that name it.
C17_CounterNeverOverReports ==
    \A i \in DOMAIN sessions :
        sessions[i].totalVotes <=
            Cardinality({j \in DOMAIN votes : votes[j].sessionId = sessions[i].id})

\* C17 witness: after a crash no handler is in flight and a session counts
\* fewer votes than are stored for it.
C17_Witness ==
    /\ Quiet
    /\ \E i \in DOMAIN sessions :
          sessions[i].totalVotes <
              Cardinality({j \in DOMAIN votes : votes[j].sessionId = sessions[i].id})

\* C12: endSession on a session that was already ended (inactive, endTime
\* set) changes no field of any record; in the local variant, endSession
\* with no active session changes nothing.
C12_EndTwiceIsNoOp ==
    [][/\ \A h \in Pending :
             (/\ h.op = "end"
              /\ \E i \in DOMAIN sessions :
                    /\ sessions[i].id = h.req.id
                    /\ ~sessions[i].isActive
                    /\ sessions[i].endTime # NoTime
              /\ EndUpdate(h))
             => UNCHANGED store
       /\ (LocalEndSession /\ ActiveSet = {}) => UNCHANGED store]_vars

\* C18: a castVote whose sessionId does not name the active session (an
\* inactive session, or none) is refused and stores no vote, and no stored
\* vote is later than the end of its session.
C18_VoteOnlyInActiveSession ==
    [][/\ Arrival("vote") => \A req \in VoteRequests :
             (/\ ~\E i \in ActiveSet : sessions[i].id = req.sessionId
              /\ VoteBegin(req))
             => /\ inflight' = inflight
                /\ res'.op = "vote"
                /\ res'.status >= 400
                /\ votes' = votes
       /\ \A j \in DOMAIN votes', i \in DOMAIN sessions' :
             (votes'[j].sessionId = sessions'[i].id /\ sessions'[i].endTime # NoTime)
             => votes'[j].timestamp <= sessions'[i].endTime]_vars

\* C19: while the admin's poller keeps ticking and its requests are
\* answered, a session that is active with startTime + 10 minutes <= now is
\* eventually inactive.
\* (An ended session never becomes active again, so the sessions that are
\* active and expired at some moment are all inactive once none is both.)
C19_ExpiredSessionEventuallyEnded ==
    (\E i \in DOMAIN sessions :
        sessions[i].isActive /\ sessions[i].startTime + SESSION_DURATION_MS <= now)
    ~> (\A i \in DOMAIN sessions :
           ~(sessions[i].isActive /\ sessions[i].startTime + SESSION_DURATION_MS <= now))

\* C19 witness: the request of the poller's endSession has just ended a
\* session at least 10 minutes after its start, and the response is on its
\* way to the page.
C19_Witness ==
    \E h \in Pending, i \in DOMAIN sessions :
        /\ h.op = "end" /\ h.pc = "answered" /\ h.from = "endSession"
        /\ h.doc.body = <<sessions[i]>>
        /\ ~sessions[i].isActive
        /\ sessions[i].endTime # NoTime
        /\ sessions[i].endTime >= sessions[i].startTime + SESSION_DURATION_MS

\* C20: at most one call of the poller is in progress at any time.
C20_NoOverlappingTicks ==
    CallsIn(inflight) <= 1


\* C26: no login in employee mode, with any employeeId and any name,
\* returns or logs in a user whose role is ADMIN.
C26_EmployeeLoginNeverAdmin ==
    [][\A id \in EmployeeIdInputs \ {""}, name \in NameInputs :
          LET req == [employeeId |-> id, name |-> name, role |-> "EMPLOYEE"]
          IN  /\ LoginAnswer(req, "api")
                 => \A i \in DOMAIN res'.body : res'.body[i].role # "ADMIN"
              /\ LoginAnswer(req, "handleLogin")
                 => \A r \in Sent : \A i \in DOMAIN r.body : r.body[i].role # "ADMIN"
              /\ LocalHandleLoginReq(id, name, "EMPLOYEE")
                 => appUser'.role # "ADMIN"]_vars


\* What a confirmed deleteSession(sid) leaves in the store: no session or
\* vote of that id; the other votes as they were and in order; the users
\* unchanged; the other sessions in order and as they were, or, when
\* `expiredMayEnd`, ended at `now` if active and past their 10 minutes
DeleteFrame(sid, expiredMayEnd) ==
    LET keptS == {i \in DOMAIN sessions : sessions[i].id # sid}
        keptV == {i \in DOMAIN votes : votes[i].sessionId # sid}
    IN  /\ \A j \in DOMAIN sessions' : sessions'[j].id # sid
        /\ \A j \in DOMAIN votes' : votes'[j].sessionId # sid
        /\ Len(sessions') = Cardinality(keptS)
        /\ Len(votes') = Cardinality(keptV)
        /\ \A i \in keptV :
              votes'[Cardinality({k \in keptV : k <= i})] = votes[i]
        /\ users' = users
        /\ \A i \in keptS :
              LET after == sessions'[Cardinality({k \in keptS : k <= i})]
              IN  \/ after = sessions[i]
                  \/ /\ expiredMayEnd
                     /\ sessions[i].isActive
                     /\ sessions[i].startTime + SESSION_DURATION_MS <= now
                     /\ after = [sessions[i] EXCEPT !.isActive = FALSE, !.endTime = now]

\* No step but deleteSession removes or changes a stored vote
VotesAppendOnly ==
    res'.op # "deleteSession"
    => Len(votes') >= Len(votes) /\ SubSeq(votes', 1, Len(votes)) = votes

\* C25 (amended): a confirmed deleteSession(sessionId) removes the session
\* with that id and exactly the votes of that session: no vote of it remains,
\* every other vote is kept as it was and in order, the users are unchanged,
\* and every other session is kept as it was, except that the active session
\* is ended when it is past its 10 minutes; no other step removes or changes
\* a stored vote.
C25_DeleteCascades ==
    [][/\ (res'.op = "deleteSession" /\ LocalDeleteSession)
          => \E sid \in SessionIdInputs \ {""} : DeleteFrame(sid, TRUE)
       /\ VotesAppendOnly]_vars

\* C25 witness: deleteSession has just removed one of two sessions and its
\* vote; the vote of the other session is still stored.
C25_Witness ==
    /\ res.op = "deleteSession"
    /\ nSessions = 2 /\ Len(sessions) = 1
    /\ nVotes = 2 /\ Len(votes) = 1
    /\ votes[1].sessionId = sessions[1].id

\* C25 as stated: a confirmed deleteSession(sessionId) removes the session
\* with that id and exactly its votes, and every other session, every other
\* vote and all users are unchanged; no other step removes or changes a
\* stored vote.
C25_OtherSessionsUnchanged ==
    [][/\ (res'.op = "deleteSession" /\ LocalDeleteSession)
          => \E sid \in SessionIdInputs \ {""} : DeleteFrame(sid, FALSE)
       /\ VotesAppendOnly]_vars


\* C27: the endSession that the admin poller triggers on expiry never sets
\* inactive a session with startTime + 10 minutes > now.
C27_AutoEndOnlyExpired ==
    [][\A h \in Pending :
          (h.op = "end" /\ h.from = "endSession" /\ EndUpdate(h))
          => \A i \in DOMAIN sessions :
                (sessions[i].isActive /\ ~sessions'[i].isActive)
                => sessions[i].startTime + SESSION_DURATION_MS <= now]_vars


\* C21: once logout has returned, no call of the client's poller starts and
\* none that was in flight goes on: no answer to a fetch reaches it, and
\* it issues no endSession.
C21_NoTickAfterLogout ==
    [][View = "view-login"
       => /\ ~PollFire
          /\ \A c \in Pending : ~PollStep(c)]_vars


\* C22: a call of the poller in which a fetch fails leaves what the
\* dashboard displays as it was before the call: the dashboard is written
\* only by the step that completes a call of updateAdminUI, never by a step
\* after which the call still has a fetch to make.
C22_FailedTickWritesNothing ==
    [][adminControls' # adminControls
       => \E c \in Pending :
             \/ PollUsers(c)
             \/ /\ PollStats(c)
                /\ c.call.sessionId = "" \/ Expired(sessions, c.call.sessionId, now)]_vars


\* A step in which the employee poller has called checkEmployeeStatus: the
\* call made by initEmployeeDashboard at login, or a call made by the interval
PollerChecked ==
    /\ variant = "local"
    /\ res'.op \in {"handleLogin", "checkEmployeeStatus"}
    /\ View' = "view-employee"

\* C23: after each call of checkEmployeeStatus by the employee poller exactly
\* one section is shown: waiting when no session is active, voting when a
\* session is active and the employee has no vote in it, voted with the
\* recorded type when the employee has a vote in the active session.
C23_EmployeeViewDerived ==
    [][PollerChecked =>
         LET a  == ActiveSession(sessions')
             my == {j \in DOMAIN votes' :
                       /\ a # 0
                       /\ votes'[j].sessionId = sessions'[a].id
                       /\ votes'[j].userId = appUser'.id}
         IN  /\ Cardinality({f \in {"waiting", "voting", "voted"} : empView'[f]}) = 1
             /\ empView'.waiting <=> a = 0
             /\ empView'.voting <=> (a # 0 /\ my = {})
             /\ empView'.voted => \E j \in my : empView'.text = votes'[j].type]_vars

\* C23 witness: the interval has fired for an employee whose vote in the
\* active session is stored, and the voted section shows the vote's type.
C23_Witness ==
    /\ res.op = "checkEmployeeStatus"
    /\ empView.voted
    /\ \E j \in DOMAIN votes :
          /\ votes[j].userId = appUser.id
          /\ ActiveSession(sessions) # 0
          /\ votes[j].sessionId = sessions[ActiveSession(sessions)].id
          /\ empView.text = votes[j].type

\* C24: a call of checkEmployeeStatus by the employee poller, after the first
\* since the page was loaded, raises one notification when it reads an active
\* session whose id differs from what the previous call read (another id, or
\* no session), and none otherwise.
C24_NotifyOnNewSession ==
    [][PollerChecked =>
         LET a == ActiveSession(sessions')
         IN  /\ Len(res'.body) <= 1
             /\ res'.body # <<>> <=> (a # 0 /\ sessions'[a].id # lastSessionId)]_vars

====
